---- MODULE Spec2Model ----
(***************************************************************************)
(* Model of the change-detection and notification engine of SvnMonitor    *)
(* (src/src/svn_monitor.py): the revision store last_revisions.json, the  *)
(* check cycle of SVNMonitor.run, the hook entry point process_commit,    *)
(* and the svn / SMTP collaborators seen at their interface.              *)
(*                                                                         *)
(* Assumption: reading and writing last_revisions.json itself succeeds    *)
(* (the except branches of _get_last_recorded_revisions and               *)
(* _save_last_revisions are not taken).                                   *)
(***************************************************************************)
EXTENDS Integers, Sequences, FiniteSets, TLC

(***************************************************************************)
(* Bounds and configuration                                                *)
(***************************************************************************)
\* highest revision a repository reaches in the model
MaxRev == 2

\* self.repositories, in the iteration order of the dict
RepoOrder == <<"r1", "r2">>

Repos == {RepoOrder[i] : i \in 1..Len(RepoOrder)}

\* repo_config['name'] of each repository (the 'repository' field of a record)
RepoName(r) == IF r = "r1" THEN "n1" ELSE "n2"

\* page_size of _get_paginated_svn_log
page_size == 500

\* max_retries of _send_email
max_retries == 2

\* longest list of changes handed to send_email_notification
MaxChanges == 2

\* how the svn tool answers the commands of one check of a repository:
\*   ok        every command succeeds
\*   down      every command fails (_run_svn_command returns '')
\*   log_empty svn log returns no output, the other commands succeed
\*   wc_broken the local working copy cannot be prepared
\*             (_ensure_working_copy raises); remote queries succeed
SvnModes == {"ok", "down", "log_empty", "wc_broken"}

\* outcome of one SMTP attempt of _send_email:
\*   sent  send_message and quit succeed
\*   auth  login raises SMTPAuthenticationError
\*   smtp  another smtplib.SMTPException
\*   other any other exception (socket error, timeout)
SmtpOutcomes == {"sent", "auth", "smtp", "other"}

Min(a, b) == IF a < b THEN a ELSE b

Max(a, b) == IF a > b THEN a ELSE b

VARIABLES
    \* configuration, fixed after construction
    notify_on_changes,   \* repo -> BOOLEAN
    use_remote_check,    \* BOOLEAN
    has_credentials,     \* SMTP user name and password both non-empty
    \* environment
    head,                \* repo -> head revision of the repository
    revision_file,       \* content of last_revisions.json: repo -> revision
    \* scheduler process (SVNMonitor.run)
    pc,                  \* "load", "check", "dispatch", "status", "wait",
                         \* "backoff", "stopped"
    idx,                 \* position in RepoOrder of the repository checked next
    last_revisions,      \* self.last_revisions
    all_changes,         \* sequence of change records
    changes_to_update,   \* repo -> [last_revision, latest_revision]
    errors,              \* repositories whose check raised in this cycle
    running,             \* self.running
    started,             \* the start-up cycle is over, run is in its while loop
    svn_responds,        \* environment: the svn tool answers the commands it is given
    \* one call of send_email_notification, taken on its own
    mail_call,           \* [changes, compose, behaviour]: the call and what it meets
    mail_return,         \* [called, value, attempts]: what the call did
    \* one call of _run_svn_command, taken on its own
    cmd_input,           \* [command, working_dir]: the arguments of the call
    cmd_pc,              \* "idle", "run", "locked", "returned"
    cmd_depth,           \* nested calls of _run_svn_command below the first one
    cmd_events,          \* what happened so far, in order
    cmd_output,          \* the value returned: "" or "output"
    \* one call of a helper function, taken on its own
    fn_args,             \* the function called and its arguments
    fn_result,           \* [done, ...]: what the call returned and did
    \* hook process (main() in hook mode: SVNMonitor() then process_commit)
    hook_pc,             \* "none", or the outcome of the notification
    hook_last_revisions, \* self.last_revisions of the hook process
    hook_args,           \* [repo, revision] resolved for process_commit
    \* history variables (observations, not program state)
    cycle_start_file,    \* revision_file as read by the cycle's reload
    observed,            \* repo -> latest revision its check obtained in this
                         \* cycle, -1 before the check and when it raised
    dispatch_result,     \* "none", "ok", "fail": send_email_notification in this cycle
    prev_failed,         \* pending set and payload of the previous cycle, if its
                         \* dispatch failed and the environment has not changed since
    env_stable,          \* no environment change since the current cycle's reload
    ext_write            \* "no"; "pending": the hook process wrote the file after
                         \* the last reload; "seen": it wrote it between the last
                         \* two reloads

vars == <<notify_on_changes, use_remote_check, has_credentials, head,
          revision_file, pc, idx, last_revisions, all_changes, changes_to_update,
          errors, hook_pc, hook_last_revisions, hook_args, cycle_start_file,
          observed, dispatch_result, prev_failed, env_stable, ext_write,
          running, started, svn_responds, mail_call, mail_return,
          cmd_input, cmd_pc, cmd_depth, cmd_events, cmd_output,
          fn_args, fn_result>>

cfg_vars == <<notify_on_changes, use_remote_check, has_credentials>>

env_vars == <<head>>

sched_vars == <<pc, idx, last_revisions, all_changes, changes_to_update, errors>>

hook_vars == <<hook_pc, hook_last_revisions, hook_args>>

loop_vars == <<running, started>>

\* the variables of the calls that are modelled on their own
mail_vars == <<mail_call, mail_return>>

cmd_vars == <<cmd_input, cmd_pc, cmd_depth, cmd_events, cmd_output>>

fn_vars == <<fn_args, fn_result>>

call_vars == <<mail_vars, cmd_vars, fn_vars>>

NoPrev == [failed |-> FALSE, pending |-> <<>>, changes |-> <<>>]

NoArgs == [repo |-> RepoOrder[1], revision |-> 0]

ZeroRevisions == [r \in Repos |-> 0]

NotObserved == [r \in Repos |-> -1]

\* last_revisions.json does not exist yet
NoFile == [r \in {} |-> 0]

\* no call of send_email_notification is under way
NoCall == [changes |-> <<>>, compose |-> "composed", behaviour |-> <<>>]

NoReturn == [called |-> FALSE, value |-> "False", attempts |-> 0]

\* no call of _run_svn_command is under way
NoCommand == [command |-> "none", working_dir |-> FALSE]

\* no helper function is being called
NoFunction == [fn |-> "none"]

NoResult == [done |-> FALSE]

InitNoFunction ==
    /\ fn_args = NoFunction
    /\ fn_result = NoResult

InitNoCommand ==
    /\ cmd_input = NoCommand
    /\ cmd_pc = "idle"
    /\ cmd_depth = 0
    /\ cmd_events = <<>>
    /\ cmd_output = ""

(***************************************************************************)
(* Revision store                                                          *)
(***************************************************************************)
\* _get_last_recorded_revisions: the entries of the file for the configured
\* repositories, 0 for a repository without an entry
GetLastRecordedRevisions(file) ==
    [r \in Repos |-> IF r \in DOMAIN file THEN file[r] ELSE 0]

\* _save_last_revisions: json.dump of the whole map replaces the file
SaveLastRevisions(revisions) == revisions

(***************************************************************************)
(* The svn tool, as seen through _run_svn_command                          *)
(***************************************************************************)
\* output of 'svn info --show-item revision': <<>> is the empty output that
\* _run_svn_command returns for a failed command, <<n>> the printed number
RunSvnInfo(r, m) ==
    IF m = "down" THEN <<>> ELSE <<head[r]>>

\* output of 'svn log -r lo:hi [-l limit]' (lo <= hi; limit 0: no -l option):
\* the log entries of the revisions lo..hi that exist, ascending, cut after
\* limit entries; revision 0 has no entry; a range beyond the head revision
\* is an error (empty output)
RunSvnLog(r, m, lo, hi, limit) ==
    IF m \in {"down", "log_empty"} \/ hi > head[r] THEN <<>>
    ELSE LET first == Max(lo, 1)
             n     == Max(hi - first + 1, 0)
             count == IF limit > 0 THEN Min(n, limit) ELSE n
         IN  [i \in 1..count |-> first + i - 1]

\* subprocess.run(command, capture_output=True, ..., check=True) is called
\* without a timeout: it returns when the svn process has ended
SvnCallReturns == svn_responds

\* _ensure_working_copy raises (local mode)
EnsureWorkingCopyRaises(m) == m = "wc_broken"

\* get_latest_revision: [raised, value]
GetLatestRevision(r, m) ==
    IF use_remote_check
    THEN LET output == RunSvnInfo(r, m)
         IN  IF output = <<>> THEN [raised |-> FALSE, value |-> 0]
             ELSE [raised |-> FALSE, value |-> output[1]]
    ELSE IF EnsureWorkingCopyRaises(m) THEN [raised |-> TRUE, value |-> 0]
         ELSE LET output == RunSvnInfo(r, m)
              IN  IF output = <<>> THEN [raised |-> TRUE, value |-> 0]
                  ELSE [raised |-> FALSE, value |-> output[1]]

RECURSIVE SingleRevisionLogs(_, _, _, _)
\* the fallback of _get_paginated_svn_log: one query per revision of the
\* page, rev..current_end, the outputs kept in that order (the loop over the
\* revisions is evaluated by halves of the page)
SingleRevisionLogs(r, m, rev, current_end) ==
    IF rev > current_end THEN <<>>
    ELSE IF rev = current_end THEN RunSvnLog(r, m, rev, rev, 0)
    ELSE LET middle == (rev + current_end) \div 2
         IN  SingleRevisionLogs(r, m, rev, middle)
             \o SingleRevisionLogs(r, m, middle + 1, current_end)

\* mutant of PageEnd: a page one revision too long
PageEndLong(current_start, to_revision) ==
    Min(current_start + page_size, to_revision)

\* 'current_end = min(current_start + page_size - 1, to_revision)'
PageEnd(current_start, to_revision) ==
    Min(current_start + page_size - 1, to_revision)

\* mutant of PageFallback: a page without output is dropped
PageFallbackDrops(r, m, current_start, current_end) == <<>>

\* what the page loop keeps of a page whose range query gave no output
PageFallback(r, m, current_start, current_end) ==
    SingleRevisionLogs(r, m, current_start, current_end)

RECURSIVE PaginatedFrom(_, _, _, _)
\* the page loop of _get_paginated_svn_log from current_start
PaginatedFrom(r, m, current_start, to_revision) ==
    IF current_start > to_revision THEN <<>>
    ELSE LET current_end == PageEnd(current_start, to_revision)
             log_output  == RunSvnLog(r, m, current_start, current_end, 0)
             page        == IF log_output # <<>> THEN log_output
                            ELSE PageFallback(r, m, current_start, current_end)
         IN  page \o PaginatedFrom(r, m, current_end + 1, to_revision)

RECURSIVE SingleRevisionQueries(_, _)
\* the queries of the fallback: '-r rev' for each revision of the page
SingleRevisionQueries(rev, current_end) ==
    IF rev > current_end THEN <<>>
    ELSE IF rev = current_end THEN <<[kind |-> "single", lo |-> rev, hi |-> rev]>>
    ELSE LET middle == (rev + current_end) \div 2
         IN  SingleRevisionQueries(rev, middle)
             \o SingleRevisionQueries(middle + 1, current_end)

RECURSIVE PaginatedQueriesFrom(_, _, _, _)
\* the svn log queries the page loop issues from current_start, in order
PaginatedQueriesFrom(r, m, current_start, to_revision) ==
    IF current_start > to_revision THEN <<>>
    ELSE LET current_end == PageEnd(current_start, to_revision)
             log_output  == RunSvnLog(r, m, current_start, current_end, 0)
         IN  <<[kind |-> "page", lo |-> current_start, hi |-> current_end]>>
             \o (IF log_output # <<>> THEN <<>>
                 ELSE SingleRevisionQueries(current_start, current_end))
             \o PaginatedQueriesFrom(r, m, current_end + 1, to_revision)

\* _get_paginated_svn_log: the log entries of all pages, in page order
GetPaginatedSvnLog(r, m, from_revision, to_revision) ==
    PaginatedFrom(r, m, from_revision, to_revision)

\* the local-mode query of get_changes: -r range and -l limit
LocalRangeStart(from_revision) ==
    IF from_revision > 1 THEN from_revision + 1 ELSE 1

LocalLimit(from_revision, to_revision) ==
    LET revision_gap == to_revision - from_revision
    IN  IF revision_gap > 0 THEN revision_gap ELSE 1

\* _parse_svn_log on well-formed output: one record per log entry, in order
ParseSvnLog(output, repo_name) ==
    [i \in 1..Len(output) |->
        [revision |-> output[i], repository |-> repo_name, synthetic |-> FALSE]]

\* the default change object get_changes returns from its except branch
DefaultChange(to_revision, repo_name) ==
    [revision |-> to_revision, repository |-> repo_name, synthetic |-> TRUE]

\* get_changes(from_revision, to_revision, repo_config)
GetChanges(from_revision, to_revision, r, m) ==
    IF use_remote_check
    THEN ParseSvnLog(GetPaginatedSvnLog(r, m, from_revision, to_revision),
                     RepoName(r))
    ELSE IF EnsureWorkingCopyRaises(m)
         THEN <<DefaultChange(to_revision, RepoName(r))>>
         ELSE ParseSvnLog(RunSvnLog(r, m, LocalRangeStart(from_revision), to_revision,
                                    LocalLimit(from_revision, to_revision)),
                          RepoName(r))

(***************************************************************************)
(* Notification dispatch                                                   *)
(***************************************************************************)
\* mutant of RetriesExhausted: the loop test 'retry_count <= max_retries + 1'
RetriesExhaustedLate(retry_count) == retry_count > max_retries + 1

\* 'while retry_count <= max_retries and not success' is left because the
\* retries are used up
RetriesExhausted(retry_count) == retry_count > max_retries

\* what one failed SMTP attempt does to the retry loop of _send_email:
\* the handlers of SMTPAuthenticationError and SMTPException count the
\* attempt and go round again, the handler of any other exception breaks
RetriesAfter(outcome) == outcome \in {"auth", "smtp", "quit_smtp"}

RECURSIVE SendEmailFrom(_, _)
\* the retry loop of _send_email from retry_count; behaviour[i] is the
\* outcome of the i-th SMTP attempt
SendEmailFrom(behaviour, retry_count) ==
    IF RetriesExhausted(retry_count) THEN FALSE
    ELSE LET outcome == behaviour[retry_count + 1]
         IN  IF outcome = "sent" THEN TRUE
             ELSE IF RetriesAfter(outcome)
                  THEN SendEmailFrom(behaviour, retry_count + 1)
                  ELSE FALSE

RECURSIVE SendEmailAttemptsFrom(_, _)
\* the number of SMTP attempts (connections opened) the retry loop makes
\* from retry_count on
SendEmailAttemptsFrom(behaviour, retry_count) ==
    IF RetriesExhausted(retry_count) THEN 0
    ELSE LET outcome == behaviour[retry_count + 1]
         IN  IF outcome # "sent" /\ RetriesAfter(outcome)
             THEN 1 + SendEmailAttemptsFrom(behaviour, retry_count + 1)
             ELSE 1

\* _send_email(msg)
SendEmail(behaviour) == SendEmailFrom(behaviour, 0)

\* the SMTP attempts of one call of _send_email(msg)
SendEmailAttempts(behaviour) == SendEmailAttemptsFrom(behaviour, 0)

\* a list element that is not a change record (not a dict): change.get
\* raises in the grouping loop of send_email_notification
NotARecord == [revision |-> -1, repository |-> "none", synthetic |-> FALSE]

\* the grouping loop of send_email_notification raises
GroupingRaises(changes) == \E i \in 1..Len(changes) : changes[i] = NotARecord

\* building the message (recipients, subject, body) either succeeds or raises
ComposeOutcomes == {"composed", "raises"}

\* whether send_email_notification gets as far as calling _send_email
ReachesSendEmail(changes, compose) ==
    /\ changes # <<>>
    /\ has_credentials
    /\ ~GroupingRaises(changes)
    /\ compose = "composed"

\* mutant of OuterExceptValue: the except branch lets the exception escape
OuterExceptReraises == "Raised"

\* the outer except branch of send_email_notification: 'return False'
OuterExceptValue == "False"

\* the value send_email_notification(changes) returns: "True", "False", or
\* "None" (the bare return of the grouping loop's except branch); sent is
\* the value of _send_email(msg), should the call get that far
NotificationValue(changes, compose, sent) ==
    IF changes = <<>> THEN "False"
    ELSE IF ~has_credentials THEN "False"
    ELSE IF GroupingRaises(changes) THEN "None"
    ELSE IF compose = "raises" THEN OuterExceptValue
    ELSE IF sent THEN "True" ELSE "False"

\* send_email_notification(changes) against a behaviour of the mail transport
SendEmailNotificationValue(changes, compose, behaviour) ==
    NotificationValue(changes, compose, SendEmail(behaviour))

\* the SMTP attempts made by send_email_notification(changes)
NotificationAttempts(changes, compose, behaviour) ==
    IF ReachesSendEmail(changes, compose) THEN SendEmailAttempts(behaviour) ELSE 0

\* send_email_notification(changes) as its callers test it
\* ('if email_success:'): TRUE only when the message was sent
SendEmailNotification(changes, compose, behaviour) ==
    SendEmailNotificationValue(changes, compose, behaviour) = "True"

\* every behaviour of the mail transport over the attempts of one call;
\* a behaviour holds one outcome more than the retry loop can consume
Behaviours == [1..(max_retries + 2) -> SmtpOutcomes]

\* the values _send_email(msg) can return, over all behaviours
SendEmailResults == {SendEmail(behaviour) : behaviour \in Behaviours}

\* the values send_email_notification(changes) can have for its callers,
\* over all behaviours of the message composition and of the mail transport
DispatchOutcomes(changes) ==
    {NotificationValue(changes, compose, sent) = "True" :
        compose \in ComposeOutcomes, sent \in SendEmailResults}

(***************************************************************************)
(* Initial state: after SVNMonitor.__init__, before the start-up cycle     *)
(***************************************************************************)
\* the monitor process after construction, whatever the repositories hold
InitProcess ==
    /\ revision_file = NoFile
    /\ pc = "load"
    /\ idx = 1
    /\ last_revisions = GetLastRecordedRevisions(revision_file)
    /\ all_changes = <<>>
    /\ changes_to_update = <<>>
    /\ errors = {}
    /\ hook_pc = "none"
    /\ hook_last_revisions = ZeroRevisions
    /\ hook_args = NoArgs
    /\ cycle_start_file = ZeroRevisions
    /\ observed = NotObserved
    /\ dispatch_result = "none"
    /\ prev_failed = NoPrev
    /\ env_stable = FALSE
    /\ ext_write = "no"
    /\ running = TRUE
    /\ started = FALSE
    /\ svn_responds = TRUE

InitMonitor ==
    /\ head = [r \in Repos |-> 0]
    /\ InitProcess

\* the monitor as the calls modelled on their own find it
InitIdle ==
    /\ notify_on_changes = [r \in Repos |-> TRUE]
    /\ has_credentials = TRUE
    /\ InitProcess
    /\ mail_call = NoCall
    /\ mail_return = NoReturn
    /\ InitNoCommand

\* the variables a call of a helper function leaves alone
non_fn_vars == <<cfg_vars, env_vars, revision_file, sched_vars, hook_vars,
                 cycle_start_file, observed, dispatch_result, prev_failed,
                 env_stable, ext_write, loop_vars, svn_responds, mail_vars,
                 cmd_vars>>

Init ==
    /\ notify_on_changes \in [Repos -> BOOLEAN]
    /\ use_remote_check \in BOOLEAN
    /\ has_credentials \in BOOLEAN
    /\ InitMonitor
    /\ mail_call = NoCall
    /\ mail_return = NoReturn
    /\ InitNoCommand
    /\ InitNoFunction

(***************************************************************************)
(* Environment                                                             *)
(***************************************************************************)
\* somebody commits to repository r
Commit(r) ==
    /\ head[r] < MaxRev
    /\ head' = [head EXCEPT ![r] = @ + 1]
    /\ env_stable' = FALSE
    /\ prev_failed' = NoPrev
    /\ UNCHANGED <<cfg_vars, revision_file, sched_vars, hook_vars,
                   cycle_start_file, observed, dispatch_result, ext_write>>
    /\ UNCHANGED <<loop_vars, svn_responds, call_vars>>

(***************************************************************************)
(* The check cycle of SVNMonitor.run (start-up cycle and loop cycle)       *)
(***************************************************************************)
\* mutant of ReloadAtCycleStart: the cycle keeps the in-memory map
KeepInMemoryRevisions == last_revisions

\* the value the reload at the top of a cycle gives self.last_revisions
ReloadAtCycleStart == GetLastRecordedRevisions(revision_file)

\* top of a cycle: all_changes, changes_to_update, errors are reset and
\* self.last_revisions is read again from the file
CycleLoad ==
    /\ pc = "load"
    /\ last_revisions' = ReloadAtCycleStart
    /\ all_changes' = <<>>
    /\ changes_to_update' = <<>>
    /\ errors' = {}
    /\ idx' = 1
    /\ pc' = "check"
    /\ cycle_start_file' = GetLastRecordedRevisions(revision_file)
    /\ observed' = NotObserved
    /\ dispatch_result' = "none"
    /\ env_stable' = TRUE
    /\ ext_write' = IF ext_write = "pending" THEN "seen" ELSE "no"
    /\ UNCHANGED <<cfg_vars, env_vars, revision_file, hook_vars, prev_failed>>
    /\ UNCHANGED <<loop_vars, svn_responds, call_vars>>

\* changes_to_update[repo_name] = {...}
WithPending(pending, r, last_revision, latest_revision) ==
    [x \in DOMAIN pending \cup {r} |->
        IF x = r THEN [last_revision |-> last_revision,
                       latest_revision |-> latest_revision]
        ELSE pending[x]]

\* mutant of HoldsForDispatch: the notify_on_changes setting is ignored
HoldsForDispatchAlways(r) == TRUE

\* whether the check of a repository with a new revision holds the revision
\* back for the dispatch (TRUE) or records it at once (FALSE)
HoldsForDispatch(r) == notify_on_changes[r]

\* mutant of IsNewer: the test 'latest_revision != last_revision'
IsNewerUnequal(latest_revision, last_revision) == latest_revision # last_revision

\* 'if latest_revision > last_revision:'
IsNewer(latest_revision, last_revision) == latest_revision > last_revision

\* mutant of AfterCheck: an exception of one check ends the loop over the
\* repositories
AfterCheckAbortsOnError(raised) ==
    IF raised \/ idx = Len(RepoOrder) THEN "dispatch" ELSE "check"

\* mutant of AfterCheck: the notification phase follows the check of each
\* repository
AfterCheckDispatchesEarly(raised) == "dispatch"

\* where the loop over the repositories goes after the body for the
\* repository at position idx, whether or not the body raised: the except
\* branch of the body records the error and the loop continues
AfterCheck(raised) == IF idx = Len(RepoOrder) THEN "dispatch" ELSE "check"

\* body of the per-repository loop for the repository at position idx
CheckRepo(m) ==
    /\ pc = "check"
    /\ SvnCallReturns
    /\ LET r      == RepoOrder[idx]
           latest == GetLatestRevision(r, m)
           last_revision == last_revisions[r]
       IN  /\ IF latest.raised
              THEN /\ errors' = errors \cup {r}
                   /\ UNCHANGED <<all_changes, changes_to_update, last_revisions,
                                  revision_file>>
              ELSE IF IsNewer(latest.value, last_revision)
              THEN LET changes == GetChanges(last_revision, latest.value, r, m)
                   IN  IF HoldsForDispatch(r)
                       THEN /\ all_changes' = all_changes \o changes
                            /\ changes_to_update' =
                                   WithPending(changes_to_update, r, last_revision,
                                               latest.value)
                            /\ UNCHANGED <<last_revisions, revision_file, errors>>
                       ELSE /\ last_revisions' =
                                   [last_revisions EXCEPT ![r] = latest.value]
                            /\ revision_file' = SaveLastRevisions(last_revisions')
                            /\ UNCHANGED <<all_changes, changes_to_update, errors>>
              ELSE UNCHANGED <<all_changes, changes_to_update, last_revisions,
                               revision_file, errors>>
    /\ idx' = idx + 1
    /\ pc' = AfterCheck(GetLatestRevision(RepoOrder[idx], m).raised)
    /\ observed' = [observed EXCEPT ![RepoOrder[idx]] =
                        LET latest == GetLatestRevision(RepoOrder[idx], m)
                        IN  IF latest.raised THEN -1 ELSE latest.value]
    /\ env_stable' = (env_stable /\ m = "ok")
    /\ prev_failed' = IF m = "ok" THEN prev_failed ELSE NoPrev
    /\ UNCHANGED <<cfg_vars, env_vars, hook_vars, cycle_start_file, dispatch_result,
                   ext_write>>
    /\ UNCHANGED <<loop_vars, svn_responds, call_vars>>

\* mutant of CommitPending: the repositories without a pending revision are
\* written as unknown
CommitPendingResets(revisions, pending) ==
    [r \in DOMAIN revisions |->
        IF r \in DOMAIN pending THEN pending[r].latest_revision ELSE 0]

\* temp_revisions after the loop over changes_to_update
CommitPending(revisions, pending) ==
    [r \in DOMAIN revisions |->
        IF r \in DOMAIN pending THEN pending[r].latest_revision ELSE revisions[r]]

\* mutant of AfterDispatch: the pending revisions are saved whatever
\* send_email_notification returned
AfterDispatchAlwaysCommits(email_success) ==
    /\ last_revisions' = CommitPending(last_revisions, changes_to_update)
    /\ revision_file' = SaveLastRevisions(last_revisions')

\* mutant of AfterDispatch: the test of email_success is inverted
AfterDispatchInverted(email_success) ==
    IF ~email_success
    THEN /\ last_revisions' = CommitPending(last_revisions, changes_to_update)
         /\ revision_file' = SaveLastRevisions(last_revisions')
    ELSE /\ last_revisions' = GetLastRecordedRevisions(revision_file)
         /\ UNCHANGED revision_file

\* mutant of AfterDispatch: after a failed dispatch the pending revisions
\* stay in self.last_revisions
AfterDispatchKeepsPending(email_success) ==
    IF email_success
    THEN /\ last_revisions' = CommitPending(last_revisions, changes_to_update)
         /\ revision_file' = SaveLastRevisions(last_revisions')
    ELSE /\ last_revisions' = CommitPending(last_revisions, changes_to_update)
         /\ UNCHANGED revision_file

\* what the cycle does with self.last_revisions and the file once
\* send_email_notification has returned email_success
AfterDispatch(email_success) ==
    IF email_success
    THEN /\ last_revisions' = CommitPending(last_revisions, changes_to_update)
         /\ revision_file' = SaveLastRevisions(last_revisions')
    ELSE /\ last_revisions' = GetLastRecordedRevisions(revision_file)
         /\ UNCHANGED revision_file

\* 'if all_changes:' send one notification, then commit or reload
Dispatch ==
    /\ pc = "dispatch"
    /\ IF all_changes # <<>>
       THEN \E email_success \in DispatchOutcomes(all_changes) :
               /\ AfterDispatch(email_success)
               /\ dispatch_result' = IF email_success THEN "ok" ELSE "fail"
       ELSE UNCHANGED <<last_revisions, revision_file, dispatch_result>>
    /\ pc' = "status"
    /\ UNCHANGED <<cfg_vars, env_vars, idx, all_changes, changes_to_update, errors,
                   hook_vars, cycle_start_file, observed, prev_failed, env_stable,
                   ext_write>>
    /\ UNCHANGED <<loop_vars, svn_responds, call_vars>>

\* how the status summary of a cycle ends:
\*   sent    send_status_email returned True
\*   failed  send_status_email returned False (configuration incomplete, no
\*           credentials, or _send_email failed)
\*   raised  building check_result or send_status_email raised
StatusOutcomes ==
    {"failed", "raised"} \cup (IF has_credentials THEN {"sent"} ELSE {})

\* mutant of AfterStatus: an exception of the status summary reaches the
\* exception handler of the loop
AfterStatusEscapes(outcome) == IF outcome = "raised" THEN "backoff" ELSE "wait"

\* where the cycle goes after the status summary: its value is not used and
\* its try/except keeps an exception inside
AfterStatus(outcome) == "wait"

\* check_result, as the cycle builds it for send_status_email
CheckResult ==
    [total_repos        |-> Cardinality(Repos),
     repos_with_changes |-> Cardinality(DOMAIN changes_to_update),
     total_changes      |-> Len(all_changes),
     repos_checked      |-> Repos,
     errors             |-> errors]

\* send_status_email(check_result): best effort, its outcome changes nothing.
\* The cycle's locals (all_changes, changes_to_update, errors) are not read
\* again after check_result is built; the model forgets them here, and keeps
\* in prev_failed what a failed dispatch left pending.
StatusReport(outcome) ==
    /\ pc = "status"
    /\ outcome \in StatusOutcomes
    /\ pc' = AfterStatus(outcome)
    /\ all_changes' = <<>>
    /\ changes_to_update' = <<>>
    /\ errors' = {}
    /\ idx' = 1
    /\ prev_failed' = IF dispatch_result = "fail" /\ env_stable
                      THEN [failed |-> TRUE, pending |-> changes_to_update,
                            changes |-> all_changes]
                      ELSE NoPrev
    /\ cycle_start_file' = ZeroRevisions
    /\ observed' = NotObserved
    /\ dispatch_result' = "none"
    /\ env_stable' = FALSE
    /\ ext_write' = IF ext_write = "seen" THEN "no" ELSE ext_write
    /\ started' = TRUE
    /\ UNCHANGED <<cfg_vars, env_vars, revision_file, last_revisions, hook_vars>>
    /\ UNCHANGED <<running, svn_responds, call_vars>>

\* 'while self.running:' and the wait for the next check interval, slept in
\* slices of at most one second while self.running holds; the cycle starts
\* when the flag was true at the last test
Wait ==
    /\ pc = "wait"
    /\ running
    /\ pc' = "load"
    /\ UNCHANGED <<cfg_vars, env_vars, revision_file, idx, last_revisions,
                   all_changes, changes_to_update, errors, hook_vars,
                   cycle_start_file, observed, dispatch_result, prev_failed, env_stable,
                   ext_write>>
    /\ UNCHANGED <<loop_vars, svn_responds, call_vars>>

(***************************************************************************)
(* Hook mode: main() builds a new SVNMonitor and calls process_commit      *)
(***************************************************************************)
\* the repository process_commit resolves repository_path to: the one whose
\* path matches, else the first configured repository
MatchingRepo(match) == IF match \in Repos THEN match ELSE RepoOrder[1]

\* whether process_commit takes the notification branch for the fetched changes
HookNotifies(r, changes) == notify_on_changes[r] /\ changes # <<>>

\* the branch process_commit takes for a revision newer than last_revision:
\*   "delivered"  the notification branch, email_success true
\*   "failed"     the notification branch, email_success false
\*   "unnotified" the else branch: no notification attempted
HookOutcomes(r, changes) ==
    IF HookNotifies(r, changes)
    THEN {IF email_success THEN "delivered" ELSE "failed" :
             email_success \in DispatchOutcomes(changes)}
    ELSE {"unnotified"}

\* whether process_commit records the revision after that outcome
HookPersists(outcome) == outcome \in {"delivered", "unnotified"}

\* a hook process up to the outcome of the notification: __init__ reads the
\* file into self.last_revisions, process_commit resolves the repository,
\* tests the revision, fetches the changes and sends the notification. A
\* process that records nothing ends here.
HookRun(match, revision, m) ==
    /\ hook_pc = "none"
    /\ SvnCallReturns
    /\ revision <= head[MatchingRepo(match)]
    /\ LET r              == MatchingRepo(match)
           read_revisions == GetLastRecordedRevisions(revision_file)
           last_revision  == read_revisions[r]
       IN  IF revision > last_revision
           THEN \E outcome \in HookOutcomes(r, GetChanges(last_revision, revision, r, m)) :
                   IF HookPersists(outcome)
                   THEN /\ hook_pc' = outcome
                        /\ hook_args' = [repo |-> r, revision |-> revision]
                        /\ hook_last_revisions' = read_revisions
                   ELSE UNCHANGED hook_vars
           ELSE UNCHANGED hook_vars
    /\ UNCHANGED <<cfg_vars, env_vars, revision_file, sched_vars, cycle_start_file,
                   observed, dispatch_result, prev_failed, env_stable, ext_write>>
    /\ UNCHANGED <<loop_vars, svn_responds, call_vars>>

\* the rest of process_commit: self.last_revisions[matching_repo_name] =
\* revision and _save_last_revisions of the whole map; the process ends
HookCommit ==
    /\ hook_pc # "none"
    /\ revision_file' =
           SaveLastRevisions([hook_last_revisions EXCEPT
                                 ![hook_args.repo] = hook_args.revision])
    /\ ext_write' = "pending"
    /\ hook_pc' = "none"
    /\ hook_last_revisions' = ZeroRevisions
    /\ hook_args' = NoArgs
    /\ UNCHANGED <<cfg_vars, env_vars, sched_vars, cycle_start_file, observed,
                   dispatch_result, prev_failed, env_stable>>
    /\ UNCHANGED <<loop_vars, svn_responds, call_vars>>

(***************************************************************************)
(* Specifications                                                          *)
(***************************************************************************)
Environment == \E r \in Repos : Commit(r)

Scheduler ==
    \/ CycleLoad
    \/ \E m \in SvnModes : CheckRepo(m)
    \/ Dispatch
    \/ \E outcome \in {"sent", "failed", "raised"} : StatusReport(outcome)
    \/ Wait

Hook ==
    \/ \E match \in Repos \cup {"nomatch"}, revision \in 1..MaxRev, m \in SvnModes :
          HookRun(match, revision, m)
    \/ HookCommit

\* the monitor process alone
Next == Environment \/ Scheduler

Spec == Init /\ [][Next]_vars

\* the monitor process and hook-triggered processes side by side
NextHook == Environment \/ Scheduler \/ Hook

SpecHook == Init /\ [][NextHook]_vars

\* the persisted watermark of a repository (0 without an entry)
Persisted(r) == GetLastRecordedRevisions(revision_file)[r]

TypeOK ==
    /\ notify_on_changes \in [Repos -> BOOLEAN]
    /\ head \in [Repos -> 0..MaxRev]
    /\ pc \in {"load", "check", "dispatch", "status", "wait", "backoff", "stopped"}
    /\ last_revisions \in [Repos -> 0..MaxRev]
    /\ DOMAIN changes_to_update \subseteq Repos
    /\ errors \subseteq Repos
    /\ dispatch_result \in {"none", "ok", "fail"}

\* hook-triggered processes that run only while the monitor waits between
\* two cycles
HookBetweenCycles == pc \in {"wait", "load"} /\ Hook

NextBetween == Environment \/ Scheduler \/ HookBetweenCycles

SpecBetween == Init /\ [][NextBetween]_vars

(***************************************************************************)
(* The monitoring loop under termination signals, unexpected exceptions    *)
(* and an svn tool that stops answering                                    *)
(***************************************************************************)
\* _handle_sigterm: SIGTERM or SIGINT arrives
Sigterm ==
    /\ running
    /\ running' = FALSE
    /\ UNCHANGED <<cfg_vars, env_vars, revision_file, sched_vars, hook_vars,
                   cycle_start_file, observed, dispatch_result, prev_failed,
                   env_stable, ext_write, started, svn_responds, call_vars>>

\* environment: from now on the svn tool never answers a command
ToolStopsResponding ==
    /\ svn_responds
    /\ svn_responds' = FALSE
    /\ UNCHANGED <<cfg_vars, env_vars, revision_file, sched_vars, hook_vars,
                   cycle_start_file, observed, dispatch_result, prev_failed,
                   env_stable, ext_write, loop_vars, call_vars>>

\* 'while self.running:' or 'if not self.running: break' finds the flag
\* false: run returns
Stop ==
    /\ pc = "wait"
    /\ ~running
    /\ pc' = "stopped"
    /\ UNCHANGED <<cfg_vars, env_vars, revision_file, idx, last_revisions,
                   all_changes, changes_to_update, errors, hook_vars,
                   cycle_start_file, observed, dispatch_result, prev_failed,
                   env_stable, ext_write, loop_vars, svn_responds, call_vars>>

\* mutant of AfterLoopException: the exception ends the monitoring loop
AfterLoopExceptionEndsLoop == "stopped"

\* where 'except Exception' of the while loop takes the scheduler: the
\* error is logged and time.sleep(min_check_interval) begins
AfterLoopException == "backoff"

\* an unexpected exception escapes the cycle body before its dispatch and
\* commit: in the while loop the handler above takes over; in the start-up
\* cycle 'except Exception' logs it and run goes on to the while loop
CycleException ==
    /\ pc \in {"load", "check", "dispatch"}
    /\ pc' = IF started THEN AfterLoopException ELSE "wait"
    /\ started' = TRUE
    /\ prev_failed' = NoPrev
    /\ env_stable' = FALSE
    /\ UNCHANGED <<cfg_vars, env_vars, revision_file, idx, last_revisions,
                   all_changes, changes_to_update, errors, hook_vars,
                   cycle_start_file, observed, dispatch_result, ext_write,
                   running, svn_responds, call_vars>>

\* time.sleep(min_check_interval) of the exception handler is over; the
\* loop goes back to 'while self.running:' with the whole interval elapsed
\* since last_check_time
Backoff ==
    /\ pc = "backoff"
    /\ pc' = "wait"
    /\ all_changes' = <<>>
    /\ changes_to_update' = <<>>
    /\ errors' = {}
    /\ idx' = 1
    /\ cycle_start_file' = ZeroRevisions
    /\ observed' = NotObserved
    /\ dispatch_result' = "none"
    /\ ext_write' = IF ext_write = "seen" THEN "no" ELSE ext_write
    /\ UNCHANGED <<cfg_vars, env_vars, revision_file, last_revisions, hook_vars,
                   prev_failed, env_stable, loop_vars, svn_responds, call_vars>>

\* the steps run takes by itself
SchedulerRun == Scheduler \/ Stop \/ Backoff

NextRun ==
    \/ Environment
    \/ SchedulerRun
    \/ Sigterm
    \/ ToolStopsResponding
    \/ CycleException

\* run is a sequential program: it takes its next step whenever it has one
SpecRun == Init /\ [][NextRun]_vars /\ WF_vars(SchedulerRun)

(***************************************************************************)
(* One call of _get_paginated_svn_log, over revision ranges                *)
(***************************************************************************)
\* the ranges reach up to this many full pages, and a little beyond
MaxPages == 2

\* first revisions of the ranges: around 0 and around the end of a page
RangeStarts == {0, 1, 2, page_size - 1, page_size, page_size + 1}

\* last revisions of the ranges: around every page boundary
RangeEnds ==
    {k * page_size + d : k \in 0..MaxPages, d \in {-1, 0, 1, 2}} \ {-1}

InitPaginated ==
    /\ use_remote_check = TRUE
    /\ InitIdle
    /\ fn_args \in {a \in [fn : {"_get_paginated_svn_log"},
                            from_revision : RangeStarts,
                            to_revision : RangeEnds,
                            beyond : 0..1,
                            m : SvnModes] : a.from_revision <= a.to_revision}
    /\ fn_result = NoResult
    \* the repository holds the whole range, or ends one revision before
    \* the end of the range
    /\ head = [r \in Repos |-> Max(fn_args.to_revision - fn_args.beyond, 0)]

\* _get_paginated_svn_log(repo_config, from_revision, to_revision, repo_name)
\* for the first repository
GetPaginatedSvnLogCall ==
    /\ fn_args.fn = "_get_paginated_svn_log"
    /\ ~fn_result.done
    /\ fn_result' =
           [done    |-> TRUE,
            logs    |-> GetPaginatedSvnLog(RepoOrder[1], fn_args.m,
                            fn_args.from_revision, fn_args.to_revision),
            queries |-> PaginatedQueriesFrom(RepoOrder[1], fn_args.m,
                            fn_args.from_revision, fn_args.to_revision)]
    /\ UNCHANGED <<non_fn_vars, fn_args>>

NextPaginated == GetPaginatedSvnLogCall

SpecPaginated == InitPaginated /\ [][NextPaginated]_vars

\* the range queries of the pages among the queries of the call
PageQueries == SelectSeq(fn_result.queries, LAMBDA q : q.kind = "page")

\* the revisions lo..hi in ascending order
Ascending(lo, hi) == [i \in 1..Max(hi - lo + 1, 0) |-> lo + i - 1]

(***************************************************************************)
(* _parse_svn_log, over raw logs and the time of the call                  *)
(***************************************************************************)
\* longest raw log, in log entries
MaxEntries == 3

\* the times at which a log is parsed
Clock == {1, 2}

\* a raw log is [doc, entries]. Its log entries, by what the parser meets:
\*   valid         revision number, author, ISO date, message, paths
\*   bad_revision  the revision attribute is not a number
\*   no_revision   the revision attribute is missing
\*   no_date       no date element
\*   bad_date      the date is not an ISO timestamp
\*   broken        the entry is not well-formed XML (a tag is not closed)
EntryKinds == {"valid", "bad_revision", "no_revision", "no_date", "bad_date", "broken"}

\* the text around the entries:
\*   wellformed          one log element holding the entries
\*   before_declaration  markup in front of the XML declaration (ParseError
\*                       'XML or text declaration not at start of entity')
\*   not_xml             anything else ElementTree rejects
\*   blank               empty or white space only
DocKinds == {"wellformed", "before_declaration", "not_xml", "blank"}

RawLogs ==
    {l \in [doc : DocKinds,
            entries : UNION {[1..n -> EntryKinds] : n \in 0..MaxEntries}] :
        l.doc = "blank" => l.entries = <<>>}

\* ET.fromstring(xml_log) succeeds
FromStringParses(xml_log) ==
    /\ xml_log.doc = "wellformed"
    /\ \A i \in 1..Len(xml_log.entries) : xml_log.entries[i] # "broken"

\* the ParseError is the one the fallbacks of the parser look for
IsDeclarationError(xml_log) == xml_log.doc = "before_declaration"

\* xml_log.find('<') on the stripped log: markup in front of the
\* declaration starts with '<'
FirstTagPos(xml_log) == 0

\* the body of the loop over the log entries raises:
\* int(logentry.get('revision', 0)) on a revision that is not a number
EntryRaises(entry) == entry = "bad_revision"

\* the 'date' of a record: the timestamp of the entry, else the time of the
\* call (get_beijing_time_str())
EntryDate(entry, i, now) ==
    IF entry \in {"no_date", "bad_date"}
    THEN [source |-> "clock", at |-> now]
    ELSE [source |-> "log", at |-> i]

\* the change record of the i-th log entry; the entries of a log carry the
\* revisions 1, 2, ... in the order of the log
ChangeRecord(entry, i, repo_name, now) ==
    [revision   |-> IF entry = "no_revision" THEN 0 ELSE i,
     repository |-> repo_name,
     synthetic  |-> FALSE,
     date       |-> EntryDate(entry, i, now),
     message    |-> "msg"]

\* mutant of ParseFailure: a log that cannot be parsed gives no record
ParseFailureEmpty(message, repo_name, now) == <<>>

\* the minimal change object of the except branches of _parse_svn_log
ParseFailure(message, repo_name, now) ==
    <<[revision   |-> 0,
       repository |-> repo_name,
       synthetic  |-> TRUE,
       date       |-> [source |-> "clock", at |-> now],
       message    |-> message]>>

\* the loop over the log entries: a record per entry whose body does not
\* raise, in the order of the log
EntryRecords(entries, repo_name, now) ==
    LET kept == SelectSeq([i \in 1..Len(entries) |-> [entry |-> entries[i], i |-> i]],
                          LAMBDA e : ~EntryRaises(e.entry))
    IN  [k \in 1..Len(kept) |-> ChangeRecord(kept[k].entry, kept[k].i, repo_name, now)]

\* _parse_svn_log(xml_log, repo_name) called at time now
ParseSvnLogAt(xml_log, repo_name, now) ==
    IF xml_log.doc = "blank" THEN <<>>
    ELSE IF FromStringParses(xml_log) THEN EntryRecords(xml_log.entries, repo_name, now)
    ELSE IF IsDeclarationError(xml_log)
         THEN \* the log cut at its first tag, or wrapped in <log>, is parsed
              \* again; the declaration is still not at the start
              IF FirstTagPos(xml_log) > 0 /\ FromStringParses(xml_log)
              THEN EntryRecords(xml_log.entries, repo_name, now)
              ELSE ParseFailure("XML parsing error", repo_name, now)
         ELSE \* no fallback applies and root is unbound: the NameError of
              \* the next statement reaches 'except Exception'
              ParseFailure("Unknown error parsing log", repo_name, now)

InitParse ==
    /\ use_remote_check = FALSE
    /\ head = [r \in Repos |-> 0]
    /\ InitIdle
    /\ fn_args \in [fn : {"_parse_svn_log"}, xml_log : RawLogs,
                    first_time : Clock, second_time : Clock]
    /\ fn_result = NoResult

\* the same raw log is parsed at two points in time
ParseSvnLogCalls ==
    /\ fn_args.fn = "_parse_svn_log"
    /\ ~fn_result.done
    /\ fn_result' =
           [done   |-> TRUE,
            first  |-> ParseSvnLogAt(fn_args.xml_log, RepoName(RepoOrder[1]),
                                     fn_args.first_time),
            second |-> ParseSvnLogAt(fn_args.xml_log, RepoName(RepoOrder[1]),
                                     fn_args.second_time)]
    /\ UNCHANGED <<non_fn_vars, fn_args>>

NextParse == ParseSvnLogCalls

SpecParse == InitParse /\ [][NextParse]_vars

\* the positions of the entries of a raw log that cannot be parsed: an entry
\* with a missing or undecodable timestamp, or without a revision attribute,
\* still has a record
MalformedEntries(xml_log) ==
    {i \in 1..Len(xml_log.entries) : xml_log.entries[i] \in {"bad_revision", "broken"}}

\* the revisions of a sequence of change records, in order
RevisionsOf(records) == [k \in 1..Len(records) |-> records[k].revision]

(***************************************************************************)
(* _get_recipients_for_repository, over the recipient configuration        *)
(***************************************************************************)
\* a repository name is a base name behind some number of 'REPO_' prefixes
KeyBases == {"A", "B"}

RepoKeys == [prefixes : {0, 1}, base : KeyBases]

\* f'REPO_{repo_name}'
AddPrefix(repo_name) == [repo_name EXCEPT !.prefixes = @ + 1]

\* repo_name.startswith('REPO_')
StartsWithPrefix(repo_name) == repo_name.prefixes > 0

\* repo_name[5:]
StripPrefix(repo_name) == [repo_name EXCEPT !.prefixes = @ - 1]

\* an address string is a text with or without white space around it; a
\* recipient string is the sequence of the pieces between its separators
Tok(text) == [text |-> text, padded |-> FALSE]

Pad(token) == [token EXCEPT !.padded = TRUE]

\* recipient.strip()
Strip(token) == [token EXCEPT !.padded = FALSE]

\* ', '.join(recipients)
Join(recipients) ==
    [i \in 1..Len(recipients) |-> IF i = 1 THEN recipients[i] ELSE Pad(recipients[i])]

\* the elements of a set in the order in which it is iterated
RECURSIVE SetToSeq(_)
SetToSeq(set) ==
    IF set = {} THEN <<>>
    ELSE LET x == CHOOSE y \in set : TRUE
         IN  <<x>> \o SetToSeq(set \ {x})

\* the elements of a sequence
Range(seq) == {seq[i] : i \in 1..Len(seq)}

\* the lists _load_recipients_from_excel stores: stripped, never empty
RecipientLists == {<<Tok("x")>>, <<Tok("X"), Tok("x")>>}

\* recipients_mapping; a key without a list is not in the mapping
NoRecipients == <<>>

RecipientMappings == [RepoKeys -> RecipientLists \cup {NoRecipients}]

\* repo_name in self.recipients_mapping
InMapping(repo_name, recipients_mapping) ==
    /\ repo_name \in DOMAIN recipients_mapping
    /\ recipients_mapping[repo_name] # NoRecipients

\* repo_name_mapping, from display names to identifiers
NoAlias == [k \in {} |-> k]

NameMappings ==
    {NoAlias,
     [prefixes |-> 0, base |-> "A"] :> [prefixes |-> 1, base |-> "A"],
     ([prefixes |-> 0, base |-> "A"] :> [prefixes |-> 1, base |-> "B"])
        @@ ([prefixes |-> 0, base |-> "B"] :> [prefixes |-> 1, base |-> "A"])}

\* config['EMAIL'].get('to_emails', ''), as written in the configuration
ToEmails ==
    {<<>>,
     <<Tok("x")>>,
     <<Tok("x"), Pad(Tok("x"))>>,
     <<Tok("nan"), Pad(Tok(""))>>}

\* all_excel_recipients
AllExcelRecipients(recipients_mapping) ==
    UNION {Range(recipients_mapping[k]) : k \in DOMAIN recipients_mapping}

\* mutant of GetRecipientsForRepository: the recipients of all repositories
\* are preferred to a match on the name with or without its prefix
GetRecipientsAllBeforePrefix(repo_name, recipients_mapping, repo_name_mapping, to_emails) ==
    IF InMapping(repo_name, recipients_mapping)
    THEN [source |-> "exact", value |-> Join(recipients_mapping[repo_name])]
    ELSE IF /\ repo_name \in DOMAIN repo_name_mapping
            /\ InMapping(repo_name_mapping[repo_name], recipients_mapping)
    THEN [source |-> "alias",
          value |-> Join(recipients_mapping[repo_name_mapping[repo_name]])]
    ELSE IF AllExcelRecipients(recipients_mapping) # {}
    THEN [source |-> "all",
          value |-> Join(SetToSeq(AllExcelRecipients(recipients_mapping)))]
    ELSE [source |-> "default", value |-> to_emails]

\* _get_recipients_for_repository(repo_name): the recipient string and the
\* branch that returned it
GetRecipientsForRepository(repo_name, recipients_mapping, repo_name_mapping, to_emails) ==
    IF InMapping(repo_name, recipients_mapping)
    THEN [source |-> "exact", value |-> Join(recipients_mapping[repo_name])]
    ELSE IF /\ repo_name \in DOMAIN repo_name_mapping
            /\ InMapping(repo_name_mapping[repo_name], recipients_mapping)
    THEN [source |-> "alias",
          value |-> Join(recipients_mapping[repo_name_mapping[repo_name]])]
    ELSE IF InMapping(AddPrefix(repo_name), recipients_mapping)
    THEN [source |-> "prefix_added",
          value |-> Join(recipients_mapping[AddPrefix(repo_name)])]
    ELSE IF /\ StartsWithPrefix(repo_name)
            /\ InMapping(StripPrefix(repo_name), recipients_mapping)
    THEN [source |-> "prefix_stripped",
          value |-> Join(recipients_mapping[StripPrefix(repo_name)])]
    ELSE IF AllExcelRecipients(recipients_mapping) # {}
    THEN [source |-> "all",
          value |-> Join(SetToSeq(AllExcelRecipients(recipients_mapping)))]
    ELSE [source |-> "default", value |-> to_emails]

InitRecipients ==
    /\ use_remote_check = FALSE
    /\ head = [r \in Repos |-> 0]
    /\ InitIdle
    /\ fn_args \in [fn : {"_get_recipients_for_repository"},
                    repo_name : RepoKeys,
                    recipients_mapping : RecipientMappings,
                    repo_name_mapping : NameMappings,
                    to_emails : ToEmails]
    /\ fn_result = NoResult

GetRecipientsCall ==
    /\ fn_args.fn = "_get_recipients_for_repository"
    /\ ~fn_result.done
    /\ fn_result' =
           [done |-> TRUE,
            recipients |-> GetRecipientsForRepository(
                               fn_args.repo_name, fn_args.recipients_mapping,
                               fn_args.repo_name_mapping, fn_args.to_emails)]
    /\ UNCHANGED <<non_fn_vars, fn_args>>

NextRecipients == GetRecipientsCall

SpecRecipients == InitRecipients /\ [][NextRecipients]_vars

\* the list configured under a name, nothing when the name has none
ConfiguredFor(repo_name, recipients_mapping) ==
    IF InMapping(repo_name, recipients_mapping)
    THEN recipients_mapping[repo_name] ELSE <<>>

(***************************************************************************)
(* Grouping and addressing in send_email_notification                      *)
(***************************************************************************)
\* repo_config['name'] as configured; NoName when the option is absent
NoName == [prefixes |-> 0, base |-> "none"]

Unnamed == [prefixes |-> 0, base |-> "Unnamed Repository"]

DisplayNames ==
    {[prefixes |-> 0, base |-> "A"], [prefixes |-> 1, base |-> "A"],
     [prefixes |-> 0, base |-> "B"], NoName}

\* repo_config.get('name', 'Unnamed Repository')
ConfiguredName(name) == IF name = NoName THEN Unnamed ELSE name

\* the recipient configurations of the addressing model
NotifyMappings ==
    {m \in RecipientMappings : m[[prefixes |-> 1, base |-> "B"]] = NoRecipients}

\* the change records get_changes hands over for the repositories in owners:
\* their 'repository' is the configured name, their revisions are distinct
ChangesOf(owners, names) ==
    [i \in 1..Len(owners) |->
        [revision |-> i, repository |-> ConfiguredName(names[owners[i]]),
         synthetic |-> FALSE]]

\* changes_by_repo: the records of each 'repository' value, in list order
ChangesByRepo(changes) ==
    [repo_name \in {changes[i].repository : i \in 1..Len(changes)} |->
        SelectSeq(changes, LAMBDA change : change.repository = repo_name)]

\* the pieces of a recipient string that are kept as recipients
KeptRecipients(recipients_str) ==
    {Strip(recipients_str[i]) : i \in
        {j \in 1..Len(recipients_str) :
            Strip(recipients_str[j]).text \notin {"", "nan"}}}

\* mutant of CollectRecipients: every kept piece becomes a recipient of its own
CollectRecipientsKeepsAll(recipient_strings) ==
    LET all == SetToSeq(recipient_strings)
        RECURSIVE Pieces(_)
        Pieces(k) ==
            IF k > Len(all) THEN <<>>
            ELSE SelectSeq([j \in 1..Len(all[k]) |-> Strip(all[k][j])],
                           LAMBDA t : t.text \notin {"", "nan"}) \o Pieces(k + 1)
    IN  Pieces(1)

\* all_recipients, in the order of ', '.join(all_recipients)
CollectRecipients(recipient_strings) ==
    SetToSeq(UNION {KeptRecipients(recipients_str) : recipients_str \in recipient_strings})

\* the recipients of the combined message
AllRecipients(groups, recipients_mapping, repo_name_mapping, to_emails) ==
    LET per_repo == CollectRecipients(
                        {GetRecipientsForRepository(repo_name, recipients_mapping,
                                                    repo_name_mapping, to_emails).value :
                            repo_name \in DOMAIN groups})
    IN  IF per_repo # <<>> THEN per_repo ELSE CollectRecipients({to_emails})

\* recipients_list of _send_email: msg['To'] split at its commas
RecipientsList(all_recipients) ==
    LET to == Join(all_recipients)
    IN  SelectSeq([i \in 1..Len(to) |-> Strip(to[i])], LAMBDA t : t.text # "")

InitNotify ==
    /\ use_remote_check = FALSE
    /\ head = [r \in Repos |-> 0]
    /\ InitIdle
    /\ fn_args \in [fn : {"send_email_notification"},
                    names : [Repos -> DisplayNames],
                    owners : UNION {[1..n -> Repos] : n \in 1..MaxChanges},
                    recipients_mapping : NotifyMappings,
                    repo_name_mapping : NameMappings,
                    to_emails : ToEmails]
    /\ fn_result = NoResult

\* send_email_notification(changes) up to its call of _send_email: the
\* groups and the messages handed to _send_email
NotifyCall ==
    /\ fn_args.fn = "send_email_notification"
    /\ ~fn_result.done
    /\ LET changes == ChangesOf(fn_args.owners, fn_args.names)
           groups == ChangesByRepo(changes)
       IN  fn_result' =
               [done     |-> TRUE,
                changes  |-> changes,
                groups   |-> groups,
                messages |-> <<[to_addrs |-> RecipientsList(
                                     AllRecipients(groups, fn_args.recipients_mapping,
                                                   fn_args.repo_name_mapping,
                                                   fn_args.to_emails)),
                                repositories |-> DOMAIN groups,
                                revisions |-> {changes[i].revision : i \in 1..Len(changes)}]>>]
    /\ UNCHANGED <<non_fn_vars, fn_args>>

NextNotify == NotifyCall

SpecNotify == InitNotify /\ [][NextNotify]_vars

\* how often an element occurs in a sequence
Occurrences(x, seq) == Cardinality({i \in 1..Len(seq) : seq[i] = x})

(***************************************************************************)
(* One call of send_email_notification, over its inputs                    *)
(***************************************************************************)
\* the elements the lists are made of
MailRecords ==
    {[revision |-> 1, repository |-> RepoName(r), synthetic |-> FALSE] : r \in Repos}
        \cup {NotARecord}

MailChangeLists == UNION {[1..n -> MailRecords] : n \in 0..MaxChanges}

InitMail ==
    /\ notify_on_changes = [r \in Repos |-> TRUE]
    /\ use_remote_check = FALSE
    /\ has_credentials \in BOOLEAN
    /\ InitMonitor
    /\ mail_call \in [changes : MailChangeLists, compose : ComposeOutcomes,
                      behaviour : Behaviours]
    /\ mail_return = NoReturn
    /\ InitNoCommand
    /\ InitNoFunction

\* send_email_notification(changes) runs against the chosen behaviour
SendNotificationCall ==
    /\ ~mail_return.called
    /\ mail_return' =
           [called   |-> TRUE,
            value    |-> SendEmailNotificationValue(mail_call.changes,
                             mail_call.compose, mail_call.behaviour),
            attempts |-> NotificationAttempts(mail_call.changes,
                             mail_call.compose, mail_call.behaviour)]
    /\ UNCHANGED <<cfg_vars, env_vars, revision_file, sched_vars, hook_vars,
                   cycle_start_file, observed, dispatch_result, prev_failed,
                   env_stable, ext_write, loop_vars, svn_responds, mail_call,
                   cmd_vars, fn_vars>>

NextMail == SendNotificationCall

SpecMail == InitMail /\ [][NextMail]_vars

(***************************************************************************)
(* One call of _run_svn_command, over the answers of the svn tool          *)
(***************************************************************************)
\* the nested calls of _run_svn_command the interpreter allows below the
\* first one; the next one raises RecursionError
RecursionLimit == 3

\* the commands the monitor runs through _run_svn_command
SvnCommands == {"info", "log", "update", "checkout", "status", "revert"}

\* how one subprocess.run of the command ends:
\*   output  exit status 0 with output
\*   silent  exit status 0 without output
\*   lock    CalledProcessError whose message holds 'locked' or 'cleanup'
\*   error   another CalledProcessError
\*   crash   another exception (the svn executable is missing)
ToolAnswers == {"output", "silent", "lock", "error", "crash"}

\* _try_svn_cleanup(working_dir, repo_config): False at once without a
\* working directory, else the outcome of 'svn cleanup'
TrySvnCleanup(working_dir, cleanup_ok) == working_dir /\ cleanup_ok

InitCommand ==
    /\ notify_on_changes = [r \in Repos |-> TRUE]
    /\ use_remote_check = FALSE
    /\ has_credentials = TRUE
    /\ InitMonitor
    /\ mail_call = NoCall
    /\ mail_return = NoReturn
    /\ cmd_input \in [command : SvnCommands, working_dir : BOOLEAN]
    /\ cmd_pc = "run"
    /\ cmd_depth = 0
    /\ cmd_events = <<>>
    /\ cmd_output = ""
    /\ InitNoFunction

\* the try block of _run_svn_command: subprocess.run of the command, and the
\* except branches that return at once
RunCommand(answer) ==
    /\ cmd_pc = "run"
    /\ cmd_events' = Append(cmd_events, answer)
    /\ cmd_pc' = IF answer = "lock" THEN "locked" ELSE "returned"
    /\ cmd_output' = IF answer = "output" THEN "output" ELSE ""
    /\ UNCHANGED <<cmd_input, cmd_depth>>
    /\ UNCHANGED <<cfg_vars, env_vars, revision_file, sched_vars, hook_vars,
                   cycle_start_file, observed, dispatch_result, prev_failed,
                   env_stable, ext_write, loop_vars, svn_responds, mail_vars,
                   fn_vars>>

\* the lock branch of the except CalledProcessError handler: cleanup, then
\* 'return self._run_svn_command(command, ..., is_retry=True)' whether or not
\* the cleanup succeeded; an exception of the nested call gives ''
CleanupAndRetry(cleanup_ok) ==
    /\ cmd_pc = "locked"
    /\ cmd_events' =
           Append(cmd_events,
                  IF TrySvnCleanup(cmd_input.working_dir, cleanup_ok)
                  THEN "cleanup_ok" ELSE "cleanup_failed")
    /\ IF cmd_depth < RecursionLimit
       THEN /\ cmd_depth' = cmd_depth + 1
            /\ cmd_pc' = "run"
       ELSE /\ cmd_pc' = "returned"
            /\ UNCHANGED cmd_depth
    /\ UNCHANGED <<cmd_input, cmd_output>>
    /\ UNCHANGED <<cfg_vars, env_vars, revision_file, sched_vars, hook_vars,
                   cycle_start_file, observed, dispatch_result, prev_failed,
                   env_stable, ext_write, loop_vars, svn_responds, mail_vars,
                   fn_vars>>

NextCommand ==
    \/ \E answer \in ToolAnswers : RunCommand(answer)
    \/ \E cleanup_ok \in BOOLEAN : CleanupAndRetry(cleanup_ok)

SpecCommand == InitCommand /\ [][NextCommand]_vars

\* how often the events of the call so far hold one of the given events
RECURSIVE CountEvents(_, _)
CountEvents(events, kinds) ==
    IF events = <<>> THEN 0
    ELSE (IF Head(events) \in kinds THEN 1 ELSE 0) + CountEvents(Tail(events), kinds)

\* subprocess.run of the command itself, so far in this call
CommandInvocations == CountEvents(cmd_events, ToolAnswers)

\* calls of _try_svn_cleanup so far in this call
CleanupRounds == CountEvents(cmd_events, {"cleanup_ok", "cleanup_failed"})

(***************************************************************************)
(* What _run_svn_command and _try_svn_cleanup write to the log             *)
(***************************************************************************)
\* the values of the configured svn credentials
CredentialValues == {"USER", "SECRET"}

\* the command list a caller hands over
CommandList(command) == <<"svn", command, "URL">>

\* the command list after the credential arguments were added (not is_retry);
\* the list is extended in place, so a retry runs the same list
WithCredentials(command, credentials) ==
    IF credentials
    THEN command \o <<"--username", "USER", "--password", "SECRET",
                      "--non-interactive", "--trust-server-cert",
                      "--trust-server-cert-failures",
                      "unknown-ca,cn-mismatch,expired,not-yet-valid,other">>
    ELSE command

\* _get_safe_command_string(command), as the words it joins
RECURSIVE GetSafeCommandString(_)
GetSafeCommandString(command) ==
    IF command = <<>> THEN <<>>
    ELSE IF Head(command) \in {"--username", "--password"}
         THEN <<Head(command), "***">>
                  \o GetSafeCommandString(
                         IF Len(command) >= 2 THEN SubSeq(command, 3, Len(command))
                         ELSE <<>>)
         ELSE <<Head(command)>> \o GetSafeCommandString(Tail(command))

\* a log line that shows a command: which statement wrote it, and the words
\* of the command as they appear in it
LogLine(statement, words) == [statement |-> statement, words |-> words]

\* the lines of _try_svn_cleanup: it logs the working directory and the
\* output of the tool, never cleanup_command
TrySvnCleanupLogs == <<LogLine("cleanup", <<"working_dir">>)>>

\* the lines of one call of _run_svn_command whose subprocess.run calls end
\* as answers[k], answers[k+1], ... (each lock answer is followed by cleanup
\* and a nested call, which does not get output_raw_log)
RECURSIVE RunSvnCommandLogs(_, _, _, _)
RunSvnCommandLogs(command, answers, k, output_raw_log) ==
    IF k > Len(answers) THEN <<>>
    ELSE IF answers[k] = "output"
         THEN IF output_raw_log
              THEN <<LogLine("raw_log", GetSafeCommandString(command))>> ELSE <<>>
    ELSE IF answers[k] = "silent" THEN <<>>
    ELSE IF answers[k] = "crash" THEN <<>>
    ELSE IF answers[k] = "lock"
         THEN <<LogLine("raw_error_log", GetSafeCommandString(command))>>
                  \o TrySvnCleanupLogs
                  \o RunSvnCommandLogs(command, answers, k + 1, FALSE)
    ELSE <<LogLine("raw_error_log", GetSafeCommandString(command)),
           LogLine("command_failed", command)>>

\* the answers of the tool during one call: lock answers up to the last one
AnswerSequences ==
    {answers \in UNION {[1..n -> ToolAnswers] : n \in 1..(RecursionLimit + 1)} :
        \A i \in 1..(Len(answers) - 1) : answers[i] = "lock"}

InitLogging ==
    /\ use_remote_check = FALSE
    /\ head = [r \in Repos |-> 0]
    /\ InitIdle
    /\ fn_args \in [fn : {"_run_svn_command"},
                    command : SvnCommands,
                    credentials : BOOLEAN,
                    output_raw_log : BOOLEAN,
                    answers : AnswerSequences]
    /\ fn_result = NoResult

RunSvnCommandCall ==
    /\ fn_args.fn = "_run_svn_command"
    /\ ~fn_result.done
    /\ fn_result' =
           [done |-> TRUE,
            log  |-> RunSvnCommandLogs(
                         WithCredentials(CommandList(fn_args.command), fn_args.credentials),
                         fn_args.answers, 1, fn_args.output_raw_log)]
    /\ UNCHANGED <<non_fn_vars, fn_args>>

NextLogging == RunSvnCommandCall

SpecLogging == InitLogging /\ [][NextLogging]_vars

(***************************************************************************)
(* The credentials _run_svn_command and _try_svn_cleanup add to a command  *)
(***************************************************************************)
\* a credential option of a configuration section: not there, there without
\* a value, or there with a value
CredentialOptions == {"absent", "empty", "value"}

\* the 'username' and 'password' of repo_config and of the [SVN] section;
\* section is FALSE for repo_config = None and for a configuration without
\* an [SVN] section
CredentialSections ==
    {c \in [section : BOOLEAN, username : CredentialOptions, password : CredentialOptions] :
        ~c.section => (c.username = "absent" /\ c.password = "absent")}

\* the pair added to the command: that of the repository, that of the [SVN]
\* section, or none
SelectCredentials(repo_config, svn_section) ==
    IF /\ repo_config.section
       /\ repo_config.username # "absent"
       /\ repo_config.password # "absent"
    THEN IF repo_config.username = "value" /\ repo_config.password = "value"
         THEN "repository" ELSE "none"
    ELSE IF svn_section.section
    THEN IF svn_section.username = "value" /\ svn_section.password = "value"
         THEN "global" ELSE "none"
    ELSE "none"

InitCredentials ==
    /\ use_remote_check = FALSE
    /\ head = [r \in Repos |-> 0]
    /\ InitIdle
    /\ fn_args \in [fn : {"_run_svn_command", "_try_svn_cleanup"},
                    repo_config : CredentialSections,
                    svn_section : CredentialSections]
    /\ fn_result = NoResult

\* the credential block of either function
SelectCredentialsCall ==
    /\ fn_args.fn \in {"_run_svn_command", "_try_svn_cleanup"}
    /\ "svn_section" \in DOMAIN fn_args
    /\ ~fn_result.done
    /\ fn_result' = [done |-> TRUE,
                     credentials |-> SelectCredentials(fn_args.repo_config,
                                                       fn_args.svn_section)]
    /\ UNCHANGED <<non_fn_vars, fn_args>>

SpecCredentials == InitCredentials /\ [][SelectCredentialsCall]_vars

(***************************************************************************)
(* _try_svn_cleanup and _ensure_working_copy, over the file system and    *)
(* the answers of the svn tool                                             *)
(***************************************************************************)
\* working_dir of _try_svn_cleanup: empty, not on disk, a directory without
\* .svn, or a working copy
WorkingDirs == {"empty", "missing", "not_wc", "valid"}

\* how one subprocess.run of 'svn cleanup' ends:
\*   ok     exit status 0
\*   lock   CalledProcessError whose message holds 'locked'
\*   error  another CalledProcessError
\*   crash  another exception (the process cannot be started)
CleanupAnswers == {"ok", "lock", "error", "crash"}

\* the files with 'lock' in their name under .svn: none, all removed, or
\* found while every os.remove failed
LockFiles == {"none", "removed", "kept"}

\* _remove_svn_locks_manually(working_dir): True as soon as lock files were
\* found; a failing os.remove is logged and skipped
RemoveSvnLocksManually(locks) == locks # "none"

\* _try_svn_cleanup(working_dir, repo_config): the number of runs of
\* 'svn cleanup', the value returned, and whether the call raised instead.
\* The retry is inside the handler of CalledProcessError, where only
\* CalledProcessError is caught.
TrySvnCleanupCall(working_dir, first, locks, second) ==
    IF working_dir # "valid" THEN [runs |-> 0, value |-> FALSE, raised |-> FALSE]
    ELSE IF first = "ok" THEN [runs |-> 1, value |-> TRUE, raised |-> FALSE]
    ELSE IF first \in {"error", "crash"} THEN [runs |-> 1, value |-> FALSE, raised |-> FALSE]
    ELSE IF ~RemoveSvnLocksManually(locks)
         THEN [runs |-> 1, value |-> FALSE, raised |-> FALSE]
    ELSE IF second = "ok" THEN [runs |-> 2, value |-> TRUE, raised |-> FALSE]
    ELSE IF second \in {"lock", "error"} THEN [runs |-> 2, value |-> FALSE, raised |-> FALSE]
    ELSE [runs |-> 2, value |-> FALSE, raised |-> TRUE]

CleanupInputs == [first : CleanupAnswers, locks : LockFiles, second : CleanupAnswers]

InitCleanup ==
    /\ use_remote_check = FALSE
    /\ head = [r \in Repos |-> 0]
    /\ InitIdle
    /\ fn_args \in [fn : {"_try_svn_cleanup"}, working_dir : WorkingDirs,
                    cleanup : CleanupInputs]
    /\ fn_result = NoResult

TrySvnCleanupStep ==
    /\ fn_args.fn = "_try_svn_cleanup"
    /\ "working_dir" \in DOMAIN fn_args
    /\ ~fn_result.done
    /\ fn_result' =
           [done |-> TRUE,
            call |-> TrySvnCleanupCall(fn_args.working_dir, fn_args.cleanup.first,
                                       fn_args.cleanup.locks, fn_args.cleanup.second)]
    /\ UNCHANGED <<non_fn_vars, fn_args>>

SpecCleanup == InitCleanup /\ [][TrySvnCleanupStep]_vars

\* local_working_copy on disk: not there, a working copy, or a directory
\* without .svn
WorkingCopies == {"absent", "valid", "invalid"}

\* the repair branch of _ensure_working_copy, entered when the cleanup or
\* the update raised: 'svn status', then cleanup (and revert when files are
\* missing) and update; an exception in it raises the first one again
RepairWorkingCopy(status_missing, repair_raises) ==
    IF repair_raises
    THEN [events |-> <<"status", "cleanup">>, raised |-> TRUE]
    ELSE [events |-> <<"status", "cleanup">>
                        \o (IF status_missing THEN <<"revert">> ELSE <<>>)
                        \o <<"update">>,
          raised |-> FALSE]

\* the branch of _ensure_working_copy for a working copy that exists:
\* cleanup, then update
UpdateWorkingCopy(cleanup, status_missing, repair_raises) ==
    IF TrySvnCleanupCall("valid", cleanup.first, cleanup.locks, cleanup.second).raised
    THEN LET repair == RepairWorkingCopy(status_missing, repair_raises)
         IN  [repair EXCEPT !.events = <<"cleanup">> \o @]
    ELSE [events |-> <<"cleanup", "update">>, raised |-> FALSE]

\* _ensure_working_copy(repo_config): what it does to the directory and the
\* calls it makes, in order, and whether it raised
EnsureWorkingCopy(working_copy, parent_exists, rmtree_raises, cleanup, status_missing, repair_raises) ==
    LET makedirs == IF parent_exists THEN <<>> ELSE <<"makedirs">>
        rest ==
            IF working_copy = "invalid"
            THEN IF rmtree_raises
                 THEN [events |-> <<"rmtree">>, raised |-> TRUE]
                 ELSE [events |-> <<"rmtree", "checkout">>, raised |-> FALSE]
            ELSE IF working_copy = "absent"
            THEN [events |-> <<"checkout">>, raised |-> FALSE]
            ELSE UpdateWorkingCopy(cleanup, status_missing, repair_raises)
    IN  [rest EXCEPT !.events = makedirs \o @]

InitWorkingCopy ==
    /\ use_remote_check = FALSE
    /\ head = [r \in Repos |-> 0]
    /\ InitIdle
    /\ fn_args \in [fn : {"_ensure_working_copy"}, working_copy : WorkingCopies,
                    parent_exists : BOOLEAN, rmtree_raises : BOOLEAN,
                    cleanup : CleanupInputs, status_missing : BOOLEAN,
                    repair_raises : BOOLEAN]
    /\ fn_args.working_copy # "absent" => fn_args.parent_exists
    /\ fn_result = NoResult

EnsureWorkingCopyStep ==
    /\ fn_args.fn = "_ensure_working_copy"
    /\ ~fn_result.done
    /\ fn_result' =
           [done |-> TRUE,
            call |-> EnsureWorkingCopy(fn_args.working_copy, fn_args.parent_exists,
                                       fn_args.rmtree_raises, fn_args.cleanup,
                                       fn_args.status_missing, fn_args.repair_raises)]
    /\ UNCHANGED <<non_fn_vars, fn_args>>

SpecWorkingCopy == InitWorkingCopy /\ [][EnsureWorkingCopyStep]_vars

(***************************************************************************)
(* The deliveries of one call of _send_email                               *)
(***************************************************************************)
\* outcome of one SMTP attempt, with the statement that fails: besides the
\* outcomes of SmtpOutcomes, send_message succeeds and server.quit() raises
\*   quit_smtp   an smtplib.SMTPException (SMTPServerDisconnected)
\*   quit_other  any other exception
TransportOutcomes == SmtpOutcomes \cup {"quit_smtp", "quit_other"}

\* server.send_message(msg, to_addrs=recipients_list) returned in the attempt
Delivers(outcome) == outcome \in {"sent", "quit_smtp", "quit_other"}

RECURSIVE SendEmailDeliveriesFrom(_, _)
\* the attempts of the retry loop from retry_count on in which the message
\* was handed to the server
SendEmailDeliveriesFrom(behaviour, retry_count) ==
    IF RetriesExhausted(retry_count) THEN 0
    ELSE LET outcome == behaviour[retry_count + 1]
         IN  (IF Delivers(outcome) THEN 1 ELSE 0)
                 + (IF outcome # "sent" /\ RetriesAfter(outcome)
                    THEN SendEmailDeliveriesFrom(behaviour, retry_count + 1)
                    ELSE 0)

InitTransport ==
    /\ use_remote_check = FALSE
    /\ head = [r \in Repos |-> 0]
    /\ InitIdle
    /\ fn_args \in [fn : {"_send_email"},
                    behaviour : [1..(max_retries + 1) -> TransportOutcomes]]
    /\ fn_result = NoResult

SendEmailCall ==
    /\ fn_args.fn = "_send_email"
    /\ ~fn_result.done
    /\ fn_result' =
           [done       |-> TRUE,
            value      |-> SendEmail(fn_args.behaviour),
            attempts   |-> SendEmailAttempts(fn_args.behaviour),
            deliveries |-> SendEmailDeliveriesFrom(fn_args.behaviour, 0)]
    /\ UNCHANGED <<non_fn_vars, fn_args>>

SpecTransport == InitTransport /\ [][SendEmailCall]_vars

(***************************************************************************)
(* get_changes, over watermarks and latest revisions                       *)
(***************************************************************************)
\* highest latest revision of the calls of get_changes
MaxLatest == 12

InitGetChanges ==
    /\ use_remote_check \in BOOLEAN
    /\ InitIdle
    /\ fn_args \in {a \in [fn : {"get_changes"}, from_revision : 0..MaxLatest,
                          to_revision : 1..MaxLatest] :
                       a.from_revision < a.to_revision}
    /\ fn_result = NoResult
    \* to_revision is the latest revision of the repository
    /\ head = [r \in Repos |-> fn_args.to_revision]

\* get_changes(from_revision, to_revision, repo_config) for the first
\* repository, the tool answering
GetChangesCall ==
    /\ fn_args.fn = "get_changes"
    /\ ~fn_result.done
    /\ fn_result' =
           [done    |-> TRUE,
            changes |-> GetChanges(fn_args.from_revision, fn_args.to_revision,
                                   RepoOrder[1], "ok")]
    /\ UNCHANGED <<non_fn_vars, fn_args>>

SpecGetChanges == InitGetChanges /\ [][GetChangesCall]_vars

(***************************************************************************)
(* process_commit as one call, over the content of the store              *)
(***************************************************************************)
\* mutant of CommitIsNewer: the test 'revision >= last_revision'
CommitIsNewerOrSame(revision, last_revision) == revision >= last_revision

\* 'if revision > last_revision:' of process_commit
CommitIsNewer(revision, last_revision) == revision > last_revision

\* process_commit(repository_path, revision) of a process that found file
\* in the store: whether it fetched the log, the branch it took, and the
\* store it leaves
ProcessCommit(file, match, revision, m, outcome) ==
    LET r             == MatchingRepo(match)
        last_revision == GetLastRecordedRevisions(file)[r]
    IN  IF CommitIsNewer(revision, last_revision)
        THEN [fetched |-> TRUE,
              outcome |-> outcome,
              file    |-> IF HookPersists(outcome)
                          THEN SaveLastRevisions(
                                   [GetLastRecordedRevisions(file) EXCEPT ![r] = revision])
                          ELSE file]
        ELSE [fetched |-> FALSE, outcome |-> "skipped", file |-> file]

InitProcessCommit ==
    /\ notify_on_changes \in [Repos -> BOOLEAN]
    /\ use_remote_check \in BOOLEAN
    /\ has_credentials = TRUE
    /\ head = [r \in Repos |-> MaxRev]
    /\ InitProcess
    /\ mail_call = NoCall
    /\ mail_return = NoReturn
    /\ InitNoCommand
    /\ fn_args \in [fn : {"process_commit"}, file : [Repos -> 0..MaxRev],
                    match : Repos \cup {"nomatch"}, revision : 1..MaxRev,
                    m : SvnModes]
    /\ fn_result = NoResult

ProcessCommitCall ==
    /\ fn_args.fn = "process_commit"
    /\ ~fn_result.done
    /\ LET r             == MatchingRepo(fn_args.match)
           last_revision == GetLastRecordedRevisions(fn_args.file)[r]
       IN  \E outcome \in HookOutcomes(r, GetChanges(last_revision, fn_args.revision,
                                                     r, fn_args.m)) :
              fn_result' = [done |-> TRUE,
                            call |-> ProcessCommit(fn_args.file, fn_args.match,
                                                   fn_args.revision, fn_args.m, outcome)]
    /\ UNCHANGED <<non_fn_vars, fn_args>>

SpecProcessCommit == InitProcessCommit /\ [][ProcessCommitCall]_vars

(***************************************************************************)
(* Vocabulary of the properties                                            *)
(***************************************************************************)
\* the cycle is past its reload and its locals are still in place
InCycle == pc \in {"check", "dispatch", "status"}

\* the cycle has finished its dispatch and commit phase
CycleDone == pc = "status"

Pending == DOMAIN changes_to_update

\* revisions of repository r listed by log records of a payload
ListedRevisions(changes, r) ==
    {changes[i].revision :
        i \in {j \in 1..Len(changes) : /\ changes[j].repository = RepoName(r)
                                       /\ ~changes[j].synthetic}}

\* the payload holds some record (log record or default object) of r
HasRecordOf(changes, r) ==
    \E i \in 1..Len(changes) : changes[i].repository = RepoName(r)

\* a step of the monitor process
SchedulerStep == pc' # pc \/ idx' # idx

\* a step of a hook process
HookStep == hook_pc' # hook_pc

C3_AdvanceCoveredByDelivery ==
    CycleDone =>
        \A r \in Repos :
            (notify_on_changes[r] /\ Persisted(r) > cycle_start_file[r]) =>
                /\ dispatch_result = "ok"
                /\ (cycle_start_file[r] + 1)..Persisted(r)
                       \subseteq ListedRevisions(all_changes, r)

C5_OneDispatchAllOrNothing ==
    CycleDone =>
        /\ dispatch_result # "none" =>
               \A r \in Pending : HasRecordOf(all_changes, r)
        /\ \/ \A r \in Pending : Persisted(r) = changes_to_update[r].latest_revision
           \/ \A r \in Pending : Persisted(r) = cycle_start_file[r]

C7_SingleRevisionScenario ==
    \A r \in Repos :
        (/\ CycleDone
         /\ env_stable
         /\ dispatch_result = "ok"
         /\ Pending = {r}
         /\ changes_to_update[r].latest_revision
                = changes_to_update[r].last_revision + 1) =>
            /\ all_changes = <<[revision |-> changes_to_update[r].latest_revision,
                                repository |-> RepoName(r), synthetic |-> FALSE]>>
            /\ Persisted(r) = changes_to_update[r].latest_revision

(***************************************************************************)
(* C8  With hook processes interleaved with the check cycle, no step of   *)
(*     either process lowers the persisted watermark of a repository.     *)
(***************************************************************************)
C8_NoLostUpdate ==
    [][(SchedulerStep \/ HookStep) =>
           \A r \in Repos : Persisted(r)' >= Persisted(r)]_vars

C10_HookCommitDiscipline ==
    [][(HookStep /\ hook_pc # "none" /\ notify_on_changes[hook_args.repo]
          /\ Persisted(hook_args.repo)' # Persisted(hook_args.repo))
         => hook_pc = "delivered"]_vars

(***************************************************************************)
(* C11 When the check of one repository raises, every repository of the   *)
(*     cycle still has its own result (an error or an observed revision), *)
(*     the dispatch still takes place when there are changes, and a       *)
(*     successful dispatch commits the pending repositories.              *)
(***************************************************************************)
C11_ErrorIsolatedPerRepository ==
    /\ pc \in {"dispatch", "status"} =>
           \A r \in Repos : (r \in errors) # (observed[r] >= 0)
    /\ (pc = "status" /\ all_changes # <<>>) => dispatch_result # "none"
    /\ (pc = "status" /\ dispatch_result = "ok") =>
           \A r \in Pending : Persisted(r) = changes_to_update[r].latest_revision

\* the check of the first repository raised, the second repository was
\* checked after it, held back for the dispatch, and committed
C11_Witness ==
    /\ pc = "status"
    /\ errors = {RepoOrder[1]}
    /\ RepoOrder[2] \in Pending
    /\ dispatch_result = "ok"
    /\ Persisted(RepoOrder[2]) = observed[RepoOrder[2]]
    /\ Persisted(RepoOrder[2]) > cycle_start_file[RepoOrder[2]]

(***************************************************************************)
(* C12 A check in which the svn command that reports the latest revision  *)
(*     fails puts the repository on the cycle's error list, in local and  *)
(*     in remote mode.                                                     *)
(***************************************************************************)
C12_ToolFailureIsSurfaced ==
    [][CheckRepo("down") => RepoOrder[idx] \in errors']_vars

(***************************************************************************)
(* C13 One call of _send_email makes at most 3 SMTP attempts, and returns *)
(*     failure when the third attempt fails as well.                       *)
(***************************************************************************)
C13_AtMostThreeAttempts ==
    mail_return.called =>
        /\ mail_return.attempts <= 3
        /\ (mail_return.attempts = 3 /\ mail_call.behaviour[3] # "sent") =>
               mail_return.value = "False"

\* a call whose three attempts all failed
C13_Witness ==
    /\ mail_return.called
    /\ mail_return.attempts = 3
    /\ mail_call.behaviour[3] # "sent"
    /\ mail_return.value = "False"

(***************************************************************************)
(* C14 A call of _send_email whose k-th attempt (k <= 3) would succeed    *)
(*     after k - 1 attempts that failed with an authentication failure, a *)
(*     SMTP exception or another transport exception (connection error,   *)
(*     timeout) makes k attempts and reports success.                      *)
(***************************************************************************)
C14_RetriesTransportFailures ==
    (mail_return.called /\ ReachesSendEmail(mail_call.changes, mail_call.compose)) =>
        \A k \in 1..3 :
            (/\ mail_call.behaviour[k] = "sent"
             /\ \A j \in 1..(k - 1) : mail_call.behaviour[j] \in {"auth", "smtp", "other"})
                => (mail_return.attempts = k /\ mail_return.value = "True")

(***************************************************************************)
(* C15 send_email_notification returns True or False for every list of    *)
(*     change records, every outcome of the message composition and       *)
(*     every behaviour of the mail transport; no exception escapes.        *)
(***************************************************************************)
C15_DefinitiveBoolean ==
    (mail_return.called /\ ~GroupingRaises(mail_call.changes)) =>
        mail_return.value \in {"True", "False"}

\* a call with credentials and change records in which building the message
\* raised and was caught
C15_Witness ==
    /\ mail_return.called
    /\ has_credentials
    /\ mail_call.changes # <<>>
    /\ ~GroupingRaises(mail_call.changes)
    /\ mail_call.compose = "raises"
    /\ mail_return.value = "False"

(***************************************************************************)
(* C16 Without mail credentials the dispatch of a cycle makes no SMTP     *)
(*     attempt and the cycle does not take the branch of a failed         *)
(*     dispatch.                                                           *)
(***************************************************************************)
C16_NoCredentialsIsNoOp ==
    (pc = "status" /\ ~has_credentials /\ all_changes # <<>>) =>
        /\ \A compose \in ComposeOutcomes, behaviour \in Behaviours :
               NotificationAttempts(all_changes, compose, behaviour) = 0
        /\ dispatch_result # "fail"

(***************************************************************************)
(* C17 A call of _run_svn_command that meets a lock error runs cleanup    *)
(*     and retries the command exactly once: it invokes the command at    *)
(*     most twice, cleans up at most once, and returns the empty result   *)
(*     when the retry fails with a lock error again.                       *)
(***************************************************************************)
C17_LockRetriedExactlyOnce ==
    /\ CommandInvocations <= 2
    /\ CleanupRounds <= 1
    /\ (CommandInvocations = 2 /\ cmd_events[Len(cmd_events)] = "lock") =>
           (cmd_pc = "returned" /\ cmd_output = "")

(***************************************************************************)
(* C18 A check cycle that has begun its checks always comes to the end of *)
(*     its dispatch/commit phase (or is abandoned by an exception), even  *)
(*     when the svn tool or the mail server stops answering.              *)
(***************************************************************************)
C18_CycleCompletes ==
    (pc = "check") ~> (pc \in {"status", "backoff", "wait"})

(***************************************************************************)
(* C19 Once a termination signal has cleared the running flag, run comes  *)
(*     to its end from every state; it starts no cycle from the wait once *)
(*     the flag is false, and it never leaves the stopped state.          *)
(***************************************************************************)
C19_ShutdownReached ==
    /\ (~running) ~> (pc = "stopped")
    /\ [][/\ (pc = "wait" /\ ~running) => pc' \in {"wait", "stopped"}
          /\ (pc = "stopped") => pc' = "stopped"
          /\ (~running) => ~running']_vars

(***************************************************************************)
(* C20 An unexpected exception in a cycle of the monitoring loop does not *)
(*     end the loop: nothing is committed, the scheduler sleeps the       *)
(*     back-off, returns to the loop test, and starts a further cycle     *)
(*     unless the running flag has been cleared.                           *)
(***************************************************************************)
C20_ExceptionDoesNotEndLoop ==
    /\ [][/\ (started /\ pc \in {"load", "check", "dispatch"}
                /\ pc' \notin {"load", "check", "dispatch", "status"})
             => (pc' = "backoff" /\ revision_file' = revision_file)
          /\ (pc = "backoff" /\ pc' # "backoff") => pc' = "wait"
          /\ (pc = "wait" /\ running /\ pc' # "wait") => pc' = "load"]_vars
    /\ (pc = "backoff") ~> (pc = "load" \/ pc = "stopped")

\* a cycle of the loop with a pending repository was abandoned: the
\* scheduler is in its back-off and the pending revision is not recorded
C20_Witness ==
    /\ pc = "backoff"
    /\ Pending # {}
    /\ \A r \in Pending : Persisted(r) < changes_to_update[r].latest_revision

(***************************************************************************)
(* C21 Every cycle that completes its dispatch phase goes on to the       *)
(*     status summary; whatever the outcome of the summary, no persisted  *)
(*     watermark changes and the loop goes on to its wait and then to the *)
(*     next cycle.                                                         *)
(***************************************************************************)
C21_StatusIsBestEffort ==
    [][/\ (pc = "dispatch" /\ pc' # pc) => pc' = "status"
       /\ (pc = "status" /\ pc' # pc) =>
              (pc' = "wait" /\ revision_file' = revision_file)
       /\ (pc = "wait" /\ pc' # pc) => pc' = "load"]_vars

\* without credentials every status summary fails; a further cycle is under
\* way after the summary of an earlier one, with a watermark on file
C21_Witness ==
    /\ ~has_credentials
    /\ started
    /\ pc = "check"
    /\ \E r \in Repos : Persisted(r) > 0

(***************************************************************************)
(* C22 _get_paginated_svn_log(from, to) with from <= to issues one range  *)
(*     query per page; the pages are consecutive and disjoint, at most    *)
(*     500 revisions long, and cover exactly from..to; there are no more  *)
(*     pages than the range needs; and when the tool answers, the result  *)
(*     equals that of the single query from:to.                            *)
(***************************************************************************)
C22_PaginationFidelity ==
    (fn_args.fn = "_get_paginated_svn_log" /\ fn_result.done) =>
        LET pages == PageQueries
            n     == Len(pages)
        IN  /\ n >= 1
            /\ n <= ((fn_args.to_revision - fn_args.from_revision) \div 500) + 1
            /\ pages[1].lo = fn_args.from_revision
            /\ pages[n].hi = fn_args.to_revision
            /\ \A i \in 1..n : /\ pages[i].lo <= pages[i].hi
                               /\ pages[i].hi - pages[i].lo + 1 <= 500
            /\ \A i \in 1..(n - 1) : pages[i + 1].lo = pages[i].hi + 1
            /\ (fn_args.m = "ok" /\ head[RepoOrder[1]] >= fn_args.to_revision) =>
                   fn_result.logs = RunSvnLog(RepoOrder[1], "ok", fn_args.from_revision,
                                              fn_args.to_revision, 0)

\* a range of more than two pages was fetched from a tool that answers
C22_Witness ==
    /\ fn_args.fn = "_get_paginated_svn_log"
    /\ fn_result.done
    /\ Len(PageQueries) >= 3
    /\ fn_args.m = "ok"
    /\ head[RepoOrder[1]] >= fn_args.to_revision
    /\ Len(fn_result.logs) > 2 * 500

(***************************************************************************)
(* C23 When the range query of a page gives no output, every revision of  *)
(*     the page is queried on its own and the single results are kept in  *)
(*     page order: with a tool that answers single queries, the result    *)
(*     holds exactly the existing revisions of the range, ascending.      *)
(***************************************************************************)
C23_EmptyPageFallsBack ==
    (fn_args.fn = "_get_paginated_svn_log" /\ fn_result.done) =>
        /\ \A i \in 1..Len(fn_result.queries) :
               LET q == fn_result.queries[i]
               IN  (q.kind = "page" /\ RunSvnLog(RepoOrder[1], fn_args.m, q.lo, q.hi, 0) = <<>>)
                       => \A v \in q.lo..q.hi :
                              /\ i + (v - q.lo) + 1 <= Len(fn_result.queries)
                              /\ fn_result.queries[i + (v - q.lo) + 1] =
                                     [kind |-> "single", lo |-> v, hi |-> v]
        /\ fn_args.m = "ok" =>
               fn_result.logs =
                   Ascending(Max(fn_args.from_revision, 1), head[RepoOrder[1]])

\* the last page reached beyond the head revision, its range query gave no
\* output, and the single queries brought in the revisions that exist
C23_Witness ==
    /\ fn_args.fn = "_get_paginated_svn_log"
    /\ fn_result.done
    /\ fn_args.m = "ok"
    /\ head[RepoOrder[1]] < fn_args.to_revision
    /\ Len(PageQueries) >= 2
    /\ Len(fn_result.queries) > Len(PageQueries)
    /\ fn_result.logs # <<>>
    /\ fn_result.logs[Len(fn_result.logs)] = head[RepoOrder[1]]

(***************************************************************************)
(* C24 For a log of valid entries and one malformed entry, _parse_svn_log *)
(*     returns one record per valid entry, in the order of the log, and   *)
(*     no record for the malformed entry.                                  *)
(***************************************************************************)
C24_MalformedEntrySkipped ==
    (/\ fn_args.fn = "_parse_svn_log"
     /\ fn_result.done
     /\ fn_args.xml_log.doc = "wellformed"
     /\ Cardinality(MalformedEntries(fn_args.xml_log)) = 1
     /\ \A i \in 1..Len(fn_args.xml_log.entries) :
            i \in MalformedEntries(fn_args.xml_log) \/ fn_args.xml_log.entries[i] = "valid"
     /\ Len(fn_args.xml_log.entries) >= 2) =>
        /\ Len(fn_result.first) = Len(fn_args.xml_log.entries) - 1
        /\ \A k \in 1..Len(fn_result.first) : ~fn_result.first[k].synthetic
        /\ RevisionsOf(fn_result.first) =
               SelectSeq([i \in 1..Len(fn_args.xml_log.entries) |-> i],
                         LAMBDA i : i \notin MalformedEntries(fn_args.xml_log))

(***************************************************************************)
(* C25 For a log that is not blank and that ElementTree cannot parse,     *)
(*     whatever the parse error, _parse_svn_log returns exactly one       *)
(*     synthetic record.                                                   *)
(***************************************************************************)
C25_TotalFailureGivesOneRecord ==
    (/\ fn_args.fn = "_parse_svn_log"
     /\ fn_result.done
     /\ fn_args.xml_log.doc # "blank"
     /\ ~FromStringParses(fn_args.xml_log)) =>
        /\ Len(fn_result.first) = 1
        /\ fn_result.first[1].synthetic
        /\ fn_result.first[1].message \in {"XML parsing error", "Unknown error parsing log"}

\* a log that is not XML at all
C25_Witness ==
    /\ fn_args.fn = "_parse_svn_log"
    /\ fn_result.done
    /\ fn_args.xml_log.doc = "not_xml"
    /\ fn_args.xml_log.entries # <<>>
    /\ Len(fn_result.first) = 1
    /\ fn_result.first[1].message = "Unknown error parsing log"

(***************************************************************************)
(* C26 Parsing the same raw log at two points in time gives the same      *)
(*     sequence of change records.                                         *)
(***************************************************************************)
C26_ReparseIsIdempotent ==
    (fn_args.fn = "_parse_svn_log" /\ fn_result.done) =>
        fn_result.first = fn_result.second

(***************************************************************************)
(* C27 _get_recipients_for_repository takes the recipients from the first *)
(*     of these sources that yields any: the list under the name itself,  *)
(*     the list under the identifier the name is an alias of, the list    *)
(*     under the name with the prefix added, the list under the name with *)
(*     the prefix stripped, all configured recipients, the global default.*)
(***************************************************************************)
C27_ResolutionOrder ==
    (fn_args.fn = "_get_recipients_for_repository" /\ fn_result.done) =>
        LET name == fn_args.repo_name
            mapping == fn_args.recipients_mapping
            alias == fn_args.repo_name_mapping
            sources == <<"exact", "alias", "prefix_added", "prefix_stripped", "all", "default">>
            yields ==
                <<ConfiguredFor(name, mapping),
                  IF name \in DOMAIN alias THEN ConfiguredFor(alias[name], mapping) ELSE <<>>,
                  ConfiguredFor(AddPrefix(name), mapping),
                  IF name.prefixes > 0 THEN ConfiguredFor(StripPrefix(name), mapping) ELSE <<>>,
                  SetToSeq(AllExcelRecipients(mapping)),
                  fn_args.to_emails>>
            earlier(k) == \A j \in 1..(k - 1) : yields[j] = <<>>
            stripped(str) == [i \in 1..Len(str) |-> Strip(str[i])]
        IN  /\ \A k \in 1..6 :
                (earlier(k) /\ yields[k] # <<>>) =>
                    /\ fn_result.recipients.source = sources[k]
                    /\ stripped(fn_result.recipients.value) = stripped(yields[k])
            /\ earlier(7) => fn_result.recipients.value = <<>>

\* a name without a list of its own and without an alias, whose prefixed
\* form has one, while other repositories have recipients too
C27_Witness ==
    /\ fn_args.fn = "_get_recipients_for_repository"
    /\ fn_result.done
    /\ fn_args.repo_name = [prefixes |-> 0, base |-> "A"]
    /\ fn_args.repo_name_mapping = NoAlias
    /\ fn_args.recipients_mapping[[prefixes |-> 0, base |-> "A"]] = NoRecipients
    /\ fn_args.recipients_mapping[[prefixes |-> 1, base |-> "A"]] = <<Tok("x")>>
    /\ fn_args.recipients_mapping[[prefixes |-> 0, base |-> "B"]] = <<Tok("X"), Tok("x")>>
    /\ fn_result.recipients = [source |-> "prefix_added", value |-> <<Tok("x")>>]

(***************************************************************************)
(* C28 One call of send_email_notification hands one message to           *)
(*     _send_email; it covers the changes of all repositories and is      *)
(*     addressed to each distinct recipient of these repositories exactly *)
(*     once, recipients being compared with their case after trimming.    *)
(***************************************************************************)
C28_EachRecipientOnce ==
    (fn_args.fn = "send_email_notification" /\ fn_result.done) =>
        LET strings == {GetRecipientsForRepository(
                            repo_name, fn_args.recipients_mapping,
                            fn_args.repo_name_mapping, fn_args.to_emails).value :
                                repo_name \in DOMAIN fn_result.groups}
            resolved == UNION {KeptRecipients(str) : str \in strings}
            distinct == IF resolved # {} THEN resolved
                        ELSE KeptRecipients(fn_args.to_emails)
        IN  /\ Len(fn_result.messages) = 1
            /\ fn_result.messages[1].revisions = 1..Len(fn_args.owners)
            /\ Range(fn_result.messages[1].to_addrs) = distinct
            /\ \A r \in distinct : Occurrences(r, fn_result.messages[1].to_addrs) = 1

\* two repositories whose recipient lists overlap, and differ in case
C28_Witness ==
    /\ fn_args.fn = "send_email_notification"
    /\ fn_result.done
    /\ Cardinality(DOMAIN fn_result.groups) = 2
    /\ \E a, b \in DOMAIN fn_result.groups :
          /\ GetRecipientsForRepository(a, fn_args.recipients_mapping,
                 fn_args.repo_name_mapping, fn_args.to_emails).value = <<Tok("x")>>
          /\ GetRecipientsForRepository(b, fn_args.recipients_mapping,
                 fn_args.repo_name_mapping, fn_args.to_emails).value
                     = <<Tok("X"), Pad(Tok("x"))>>
    /\ Len(fn_result.messages[1].to_addrs) = 2
    /\ Range(fn_result.messages[1].to_addrs) = {Tok("x"), Tok("X")}

(***************************************************************************)
(* C29 In the groups send_email_notification forms, the records of two    *)
(*     distinct configured repositories are never in the same group, and  *)
(*     the records of a group keep the order of the change list.          *)
(***************************************************************************)
C29_GroupsNeverMix ==
    (fn_args.fn = "send_email_notification" /\ fn_result.done) =>
        \A g \in DOMAIN fn_result.groups :
            LET group == fn_result.groups[g]
            IN  /\ \A i, j \in 1..Len(group) :
                       fn_args.owners[group[i].revision] = fn_args.owners[group[j].revision]
                /\ \A i, j \in 1..Len(group) :
                       i < j => group[i].revision < group[j].revision

(***************************************************************************)
(* C30 No line that _run_svn_command or _try_svn_cleanup writes to the    *)
(*     log shows a command with the value of a credential in it.          *)
(***************************************************************************)
C30_NoCredentialInLog ==
    (fn_args.fn = "_run_svn_command" /\ fn_result.done) =>
        \A i \in 1..Len(fn_result.log) :
            \A j \in 1..Len(fn_result.log[i].words) :
                fn_result.log[i].words[j] \notin CredentialValues

(***************************************************************************)
(* C31 The credentials added to a command are the repository's pair when  *)
(*     both of its values are set, and otherwise the global pair when     *)
(*     both of its values are set, also when the repository has the       *)
(*     credential options with empty values.                              *)
(***************************************************************************)
C31_CredentialFallback ==
    (fn_result.done /\ "credentials" \in DOMAIN fn_result) =>
        LET usable(c) == c.username = "value" /\ c.password = "value"
        IN  fn_result.credentials =
                IF usable(fn_args.repo_config) THEN "repository"
                ELSE IF usable(fn_args.svn_section) THEN "global"
                ELSE "none"

(***************************************************************************)
(* C32 A notification is dispatched, and the persisted watermark of a     *)
(*     notification-enabled repository changes, only in a step of a cycle *)
(*     in which the check of every repository has completed, with an      *)
(*     observed revision or with a recorded error.                        *)
(***************************************************************************)
C32_DispatchAfterAllChecks ==
    [][LET all_checked == \A q \in Repos : q \in errors \/ observed[q] >= 0
       IN  /\ (pc = "dispatch" /\ pc' # pc) => all_checked
           /\ (dispatch_result' # dispatch_result /\ dispatch_result' # "none")
                  => all_checked
           /\ \A r \in Repos :
                  (notify_on_changes[r] /\ Persisted(r)' # Persisted(r)) => all_checked]_vars

\* both repositories were checked and held back, the second after the
\* first, and one dispatch committed both
C32_Witness ==
    /\ pc = "status"
    /\ errors = {}
    /\ Pending = Repos
    /\ dispatch_result = "ok"
    /\ \A r \in Repos : Persisted(r) = observed[r] /\ Persisted(r) > cycle_start_file[r]

(***************************************************************************)
(* C33 The status summary of a cycle gives as repositories with new       *)
(*     revisions the number of repositories whose latest revision         *)
(*     exceeded the watermark in that cycle, notifications enabled or     *)
(*     not, and lists as errors the repositories whose check raised.      *)
(***************************************************************************)
C33_StatusCountsNewRevisions ==
    pc = "status" =>
        /\ CheckResult.repos_with_changes =
               Cardinality({r \in Repos : observed[r] > cycle_start_file[r]})
        /\ CheckResult.errors = {r \in Repos : observed[r] < 0}

C35_MaintenanceProtocol ==
    (fn_args.fn = "_ensure_working_copy" /\ fn_result.done) =>
        LET calls == SelectSeq(fn_result.call.events, LAMBDA ev : ev # "makedirs")
        IN  /\ fn_args.working_copy = "absent" => calls = <<"checkout">>
            /\ fn_args.working_copy = "valid" => calls = <<"cleanup", "update">>
            /\ (fn_args.working_copy = "invalid" /\ ~fn_args.rmtree_raises) =>
                   calls = <<"rmtree", "checkout">>

(***************************************************************************)
(* C36 One call of _try_svn_cleanup runs 'svn cleanup' at most twice, the *)
(*     second time only after a lock failure of the first run and the     *)
(*     removal of lock files that were found; it never raises; and it     *)
(*     returns false for a missing directory, for a directory that is not *)
(*     a working copy, and when cleanup fails.                            *)
(***************************************************************************)
C36_CleanupAtMostTwice ==
    (fn_args.fn = "_try_svn_cleanup" /\ "working_dir" \in DOMAIN fn_args
        /\ fn_result.done) =>
        /\ fn_result.call.runs <= 2
        /\ fn_result.call.runs = 2 =>
               (fn_args.cleanup.first = "lock" /\ fn_args.cleanup.locks = "removed")
        /\ ~fn_result.call.raised
        /\ fn_args.working_dir # "valid" =>
               (fn_result.call.runs = 0 /\ ~fn_result.call.value)
        /\ (fn_result.call.runs = 1 /\ fn_args.cleanup.first # "ok") => ~fn_result.call.value
        /\ (fn_result.call.runs = 2 /\ fn_args.cleanup.second # "ok") => ~fn_result.call.value

(***************************************************************************)
(* C37 In one call of _send_email the message is handed to the server at  *)
(*     most once: the attempt in which send_message succeeds is the last  *)
(*     one, and the call returns true.                                     *)
(***************************************************************************)
C37_DeliveredExactlyOnce ==
    (fn_args.fn = "_send_email" /\ fn_result.done /\ fn_result.deliveries >= 1) =>
        /\ fn_result.deliveries = 1
        /\ Delivers(fn_args.behaviour[fn_result.attempts])
        /\ fn_result.value

(***************************************************************************)
(* C38 For a watermark R >= 0 and a latest revision L > R, get_changes    *)
(*     fetches the revisions R+1..L, in local mode and in remote mode.    *)
(***************************************************************************)
C38_ModesFetchSameRevisions ==
    (fn_args.fn = "get_changes" /\ fn_result.done) =>
        {fn_result.changes[i].revision : i \in 1..Len(fn_result.changes)}
            = (fn_args.from_revision + 1)..fn_args.to_revision

====
